---- MODULE Spec2Model ----
(***************************************************************************)
(* Model of the Femur_Modeling core: the Vector / Matrix2D containers of   *)
(* linalg.cpp, the sigmoid and mean-squared-error functions of             *)
(* neuralNetworkFunctions.cpp and the NeuralNetwork class of               *)
(* neuralNetwork.cpp (construction, forward, backward, train, predict,     *)
(* save and the file-loading constructor).                                 *)
(*                                                                         *)
(* Numbers of the element type T (float / double) are modelled in fixed    *)
(* point: the integer v stands for v / Scale.  A product of two such       *)
(* numbers is Mul, the exponential of the sigmoid is replaced by a         *)
(* clamped linear ramp with the same fixed points (0 -> 1/2, -inf -> 0,    *)
(* +inf -> 1), and the text form of a number written by operator<< keeps   *)
(* only multiples of Quantum (the stream's default precision).             *)
(***************************************************************************)
EXTENDS Integers, Sequences, FiniteSets, TLC

(***************************************************************************)
(* Bounds of the model.                                                    *)
(***************************************************************************)
\* fixed-point denominator: the integer v stands for the number v / Scale
Scale == 8
\* granularity of a number once written to the model file
Quantum == 2
\* calls made on one network object in one behaviour
MaxCalls == 2
\* calls made in one behaviour that saves and reloads the network
MaxPersistCalls == 3
\* largest epoch count passed to train
MaxEpochs == 2

\* default seed of initializeWeights
DefaultSeed == 100

(***************************************************************************)
(* Fixed-point arithmetic of the element type.                             *)
(***************************************************************************)
Mul(a, b) == (a * b) \div Scale

Abs(x) == IF x < 0 THEN 0 - x ELSE x

Min2(a, b) == IF a < b THEN a ELSE b

Max2(a, b) == IF a > b THEN a ELSE b

\* the element of a one-element set
Only(S) == CHOOSE x \in S : TRUE

RECURSIVE SumTo(_, _)
\* sum of f[1] .. f[n]
SumTo(f, n) == IF n = 0 THEN 0 ELSE SumTo(f, n - 1) + f[n]

(***************************************************************************)
(* Vector<T>: a sequence of numbers; m_size is its length.                 *)
(***************************************************************************)
\* Vector(size_t s): zero vector of size s
ZeroVector(s) == [i \in 1..s |-> 0]

\* a plausible slip of isZero: "return true" inside the loop, so that only
\* the first element is looked at
VecIsZeroFirstOnly(v) == Len(v) = 0 \/ v[1] = 0

\* Vector::isZero
VecIsZero(v) == \A i \in 1..Len(v) : v[i] = 0

VecEq(a, b) == Len(a) = Len(b) /\ \A i \in 1..Len(a) : a[i] = b[i]

\* Vector::setCoeff(i_index, value), i_index 0-based: the vector after the
\* call and the value returned (false and no write when out of range)
VecSetCoeff(v, i_index, value) ==
    IF i_index >= Len(v) THEN [v |-> v, ok |-> FALSE]
    ELSE [v |-> [v EXCEPT ![i_index + 1] = value], ok |-> TRUE]

RECURSIVE VecHistory(_, _)
\* a vector and the value of isZero() on it, before and after each write of
\* the list ws of setCoeff calls
VecHistory(v, ws) ==
    <<[v |-> v, isZero |-> VecIsZero(v)]>>
    \o (IF ws = <<>> THEN <<>>
        ELSE VecHistory(VecSetCoeff(v, ws[1].i, ws[1].value).v, Tail(ws)))

\* Vector::operator*(T scalar)
VecScale(v, scalar) == [i \in 1..Len(v) |-> Mul(v[i], scalar)]

\* the test "m_size != other.m_size" that makes add, subtract and dot report
\* the error
SizeMismatch(a, b) == Len(a) # Len(b)

\* a plausible slip of operator+: a zero vector comes back on a mismatch
VecAddZeroOnMismatch(a, b) ==
    IF Len(a) # Len(b) THEN [i \in 1..Len(a) |-> 0]
    ELSE [i \in 1..Len(a) |-> a[i] + b[i]]

\* Vector::operator+ : on a size mismatch the left operand is returned
VecAdd(a, b) ==
    IF Len(a) # Len(b) THEN a
    ELSE [i \in 1..Len(a) |-> a[i] + b[i]]

\* a plausible slip of operator-: the operands of the difference exchanged
VecSubReversed(a, b) ==
    IF Len(a) # Len(b) THEN a
    ELSE [i \in 1..Len(a) |-> b[i] - a[i]]

\* Vector::operator- : on a size mismatch the left operand is returned
VecSub(a, b) ==
    IF Len(a) # Len(b) THEN a
    ELSE [i \in 1..Len(a) |-> a[i] - b[i]]

\* a plausible slip of dot: on a mismatch the product runs over the common
\* prefix of the two vectors
VecDotCommonPrefix(a, b) ==
    SumTo([i \in 1..Min2(Len(a), Len(b)) |-> Mul(a[i], b[i])], Min2(Len(a), Len(b)))

\* Vector::dot
VecDot(a, b) ==
    IF Len(a) # Len(b) THEN 0
    ELSE SumTo([i \in 1..Len(a) |-> Mul(a[i], b[i])], Len(a))

(***************************************************************************)
(* Matrix2D<T>: m_rows, m_cols and the elements, data[i][j] being the      *)
(* element of row i and column j (1-based here, 0-based in the code).      *)
(***************************************************************************)
\* Matrix2D(rows, cols): zero matrix
ZeroMatrix(r, c) ==
    [rows |-> r, cols |-> c, data |-> [i \in 1..r |-> [j \in 1..c |-> 0]]]

MatIsZero(m) == \A i \in 1..m.rows : \A j \in 1..m.cols : m.data[i][j] = 0

MatEq(a, b) ==
    /\ a.rows = b.rows
    /\ a.cols = b.cols
    /\ \A i \in 1..a.rows : \A j \in 1..a.cols : a.data[i][j] = b.data[i][j]

\* Matrix2D::setCoeff(i_row, i_col, value), indices 0-based: the matrix after
\* the call and the value returned (false and no write when out of range)
MatSetCoeff(m, i_row, i_col, value) ==
    IF i_row >= m.rows \/ i_col >= m.cols THEN [m |-> m, ok |-> FALSE]
    ELSE [m |-> [m EXCEPT !.data[i_row + 1][i_col + 1] = value], ok |-> TRUE]

\* a plausible slip of setRow: the length of the given vector is not checked
\* and as many elements as both have are written
MatSetRowUnchecked(m, i_row, row) ==
    IF i_row >= m.rows THEN [m |-> m, ok |-> FALSE]
    ELSE [m  |-> [m EXCEPT !.data[i_row + 1] =
                    [j \in 1..m.cols |-> IF j <= Len(row) THEN row[j] ELSE @[j]]],
          ok |-> TRUE]

\* Matrix2D::setRow: the matrix afterwards and the returned flag
MatSetRow(m, i_row, row) ==
    IF i_row >= m.rows \/ Len(row) # m.cols THEN [m |-> m, ok |-> FALSE]
    ELSE [m  |-> [m EXCEPT !.data[i_row + 1] = [j \in 1..m.cols |-> row[j]]],
          ok |-> TRUE]

\* Matrix2D::setCol: the matrix afterwards and the returned flag
MatSetCol(m, i_col, col) ==
    IF i_col >= m.cols \/ Len(col) # m.rows THEN [m |-> m, ok |-> FALSE]
    ELSE [m  |-> [m EXCEPT !.data =
                    [i \in 1..m.rows |-> [@[i] EXCEPT ![i_col + 1] = col[i]]]],
          ok |-> TRUE]

\* a plausible slip of getRow: the fallback vector has the length of a column
MatGetRowFallbackOfRowCount(m, i_row) ==
    IF i_row >= m.rows THEN [ret |-> ZeroVector(m.rows), err |-> TRUE, m |-> m]
    ELSE [ret |-> [j \in 1..m.cols |-> m.data[i_row + 1][j]], err |-> FALSE,
          m |-> m]

\* Matrix2D::getRow (const): the returned vector, whether the error line was
\* printed, and the matrix afterwards
MatGetRow(m, i_row) ==
    IF i_row >= m.rows THEN [ret |-> ZeroVector(m.cols), err |-> TRUE, m |-> m]
    ELSE [ret |-> [j \in 1..m.cols |-> m.data[i_row + 1][j]], err |-> FALSE,
          m |-> m]

\* Matrix2D::getCol (const)
MatGetCol(m, i_col) ==
    IF i_col >= m.cols THEN [ret |-> ZeroVector(m.rows), err |-> TRUE, m |-> m]
    ELSE [ret |-> [i \in 1..m.rows |-> m.data[i][i_col + 1]], err |-> FALSE,
          m |-> m]

RECURSIVE MatHistory(_, _)
\* a matrix and the value of isZero() on it, before and after each write of
\* the list ws of setCoeff calls
MatHistory(m, ws) ==
    <<[m |-> m, isZero |-> MatIsZero(m)]>>
    \o (IF ws = <<>> THEN <<>>
        ELSE MatHistory(MatSetCoeff(m, ws[1].i, ws[1].j, ws[1].value).m, Tail(ws)))

\* Matrix2D::operator*(float scalar)
MatScale(m, scalar) ==
    [rows |-> m.rows, cols |-> m.cols,
     data |-> [i \in 1..m.rows |-> [j \in 1..m.cols |-> Mul(m.data[i][j], scalar)]]]

\* the test "m_rows != other.m_rows || m_cols != other.m_cols" that makes
\* add and subtract report the error
ShapeMismatch(a, b) == a.rows # b.rows \/ a.cols # b.cols

\* Matrix2D::operator+ : on a shape mismatch the left operand is returned
MatAdd(a, b) ==
    IF a.rows # b.rows \/ a.cols # b.cols THEN a
    ELSE [rows |-> a.rows, cols |-> a.cols,
          data |-> [i \in 1..a.rows |->
                      [j \in 1..a.cols |-> a.data[i][j] + b.data[i][j]]]]

\* a plausible slip of operator-: the right operand comes back on a mismatch
MatSubReturnsOther(a, b) ==
    IF a.rows # b.rows \/ a.cols # b.cols THEN b
    ELSE [rows |-> a.rows, cols |-> a.cols,
          data |-> [i \in 1..a.rows |->
                      [j \in 1..a.cols |-> a.data[i][j] - b.data[i][j]]]]

\* Matrix2D::operator- : on a shape mismatch the left operand is returned
MatSub(a, b) ==
    IF a.rows # b.rows \/ a.cols # b.cols THEN a
    ELSE [rows |-> a.rows, cols |-> a.cols,
          data |-> [i \in 1..a.rows |->
                      [j \in 1..a.cols |-> a.data[i][j] - b.data[i][j]]]]

\* a plausible slip of operator*(Matrix2D): "T sum = 0" stands before the
\* loop over j, so the sum of one entry goes on into the next of the row
MatMulSumNotReset(a, b) ==
    IF a.cols # b.rows THEN ZeroMatrix(0, 0)
    ELSE [rows |-> a.rows, cols |-> b.cols,
          data |-> [i \in 1..a.rows |->
                      [j \in 1..b.cols |->
                         SumTo([jj \in 1..j |->
                                  SumTo([k \in 1..a.cols |->
                                           Mul(a.data[i][k], b.data[k][jj])],
                                        a.cols)], j)]]]

\* a plausible slip of operator*(Matrix2D): the left operand comes back on
\* a mismatch, as it does for add and subtract
MatMulReturnsLeft(a, b) ==
    IF a.cols # b.rows THEN a
    ELSE [rows |-> a.rows, cols |-> b.cols,
          data |-> [i \in 1..a.rows |->
                      [j \in 1..b.cols |->
                         SumTo([k \in 1..a.cols |-> Mul(a.data[i][k], b.data[k][j])],
                               a.cols)]]]

\* Matrix2D::operator*(Matrix2D): on a mismatch an empty (0,0) matrix
MatMul(a, b) ==
    IF a.cols # b.rows THEN ZeroMatrix(0, 0)
    ELSE [rows |-> a.rows, cols |-> b.cols,
          data |-> [i \in 1..a.rows |->
                      [j \in 1..b.cols |->
                         SumTo([k \in 1..a.cols |-> Mul(a.data[i][k], b.data[k][j])],
                               a.cols)]]]

\* Matrix2D::operator*(Vector): on a mismatch Vector<T>(0), a vector of size 0
MatVec(m, vec) ==
    IF m.cols # Len(vec) THEN ZeroVector(0)
    ELSE [j \in 1..m.rows |->
            SumTo([i \in 1..m.cols |-> Mul(m.data[j][i], vec[i])], m.cols)]

(***************************************************************************)
(* Vector::hadamard, Vector::outerProduct and Matrix2D::transpose are      *)
(* declared in linalg.hpp and used by backward; their bodies are not part  *)
(* of the sources, so they follow the documented behaviour.  The size of   *)
(* the zero vector hadamard returns on a mismatch is not documented: it is *)
(* the parameter hf ("empty": size 0, "left": size of this, "right": size  *)
(* of the argument), fixed per behaviour by hadamardFallback.              *)
(***************************************************************************)
HadamardFallbacks == {"empty", "left", "right"}

Hadamard(a, b, hf) ==
    IF Len(a) # Len(b)
    THEN ZeroVector(CASE hf = "empty" -> 0
                      [] hf = "left"  -> Len(a)
                      [] OTHER        -> Len(b))
    ELSE [i \in 1..Len(a) |-> Mul(a[i], b[i])]

\* matrix of shape (this.size, other.size), entry (i,j) = a_i * b_j
OuterProduct(a, b) ==
    [rows |-> Len(a), cols |-> Len(b),
     data |-> [i \in 1..Len(a) |-> [j \in 1..Len(b) |-> Mul(a[i], b[j])]]]

\* a plausible slip of transpose: the result is allocated with the shape of
\* the source, and the entries that have a mirror image are exchanged
TransposeKeepsShape(m) ==
    [rows |-> m.rows, cols |-> m.cols,
     data |-> [i \in 1..m.rows |->
                 [j \in 1..m.cols |->
                    IF j <= m.rows /\ i <= m.cols THEN m.data[j][i] ELSE 0]]]

\* new matrix of shape (cols, rows), entry (j,i) = m(i,j)
Transpose(m) ==
    [rows |-> m.cols, cols |-> m.rows,
     data |-> [j \in 1..m.cols |-> [i \in 1..m.rows |-> m.data[i][j]]]]

(***************************************************************************)
(* ActivationFunction<T> and LossFunction<T>.                              *)
(***************************************************************************)
\* sigmoid(T x) = 1 / (1 + exp(-x)), here the clamped ramp 1/2 + x/4
Sigmoid(x) == Max2(0, Min2(Scale, (Scale \div 2) + (x \div 4)))

\* sigmoidDerivative(T x): sig * (1 - sig), sig computed from x
SigmoidDerivative(x) == Mul(Sigmoid(x), Scale - Sigmoid(x))

\* sigmoid(const Vector<T>&)
SigmoidVec(vec) == [i \in 1..Len(vec) |-> Sigmoid(vec[i])]

\* sigmoidDerivative(const Vector<T>&)
SigmoidDerivativeVec(vec) == [i \in 1..Len(vec) |-> SigmoidDerivative(vec[i])]

\* meanSquaredError: 0 on a size mismatch, else sum of squared differences / n.
\* (n = 0 divides 0 by 0; no network of the model has an empty output layer.)
\* a plausible slip of meanSquaredError: on a size mismatch the error is
\* taken over the elements both vectors have
MeanSquaredErrorCommonPrefix(predicted, actual) ==
    LET n == Min2(Len(predicted), Len(actual))
    IN  IF n = 0 THEN 0
        ELSE SumTo([i \in 1..n |->
                      Mul(predicted[i] - actual[i], predicted[i] - actual[i])],
                   n) \div n

MeanSquaredError(predicted, actual) ==
    IF Len(predicted) # Len(actual) THEN 0
    ELSE SumTo([i \in 1..Len(predicted) |->
                  Mul(predicted[i] - actual[i], predicted[i] - actual[i])],
               Len(predicted)) \div Len(predicted)

\* meanSquaredErrorDerivative: Vector<T>(0) on a size mismatch
MeanSquaredErrorDerivative(predicted, actual) ==
    IF Len(predicted) # Len(actual) THEN ZeroVector(0)
    ELSE [i \in 1..Len(predicted) |->
            (2 * (predicted[i] - actual[i])) \div Len(predicted)]

(***************************************************************************)
(* NeuralNetwork<T>: construction.                                         *)
(***************************************************************************)
\* the pseudo-random generator: GenStep advances its state by one draw
GenStep(g) == (5 * g + 1) % 16

RECURSIVE GenAfter(_, _)
\* state of a generator seeded with seed after n draws
GenAfter(seed, n) == IF n = 0 THEN seed % 16 ELSE GenStep(GenAfter(seed, n - 1))

\* largest r with r*r <= x
ISqrt(x) == CHOOSE r \in 0..x : r * r <= x /\ (r + 1) * (r + 1) > x

\* stddev = sqrt(2 / (inputSize + outputSize)), in fixed point
Stddev(inputSize, outputSize) ==
    ISqrt((2 * Scale * Scale) \div (inputSize + outputSize))

\* dist(gen): one sample of the normal distribution, from the generator state
Dist(g, stddev) == Mul(((g % 5) - 2) * (Scale \div 2), stddev)

RECURSIVE CellsBefore(_, _)
\* number of weights in the layers before (0-based) layer k
CellsBefore(layers, k) ==
    IF k = 0 THEN 0
    ELSE CellsBefore(layers, k - 1) + layers[k + 1] * layers[k]

\* initializeWeights(seed): one generator, seeded once, consumed layer by
\* layer and row-major within a layer; the draw number of cell (i,j) of layer
\* k (all 0-based) is CellsBefore + i*inputSize + j + 1
InitialWeights(layers, seed) ==
    [k \in 1..(Len(layers) - 1) |->
       [rows |-> layers[k + 1], cols |-> layers[k],
        data |-> [i \in 1..layers[k + 1] |->
                    [j \in 1..layers[k] |->
                       Dist(GenAfter(seed, CellsBefore(layers, k - 1)
                                           + (i - 1) * layers[k] + (j - 1) + 1),
                            Stddev(layers[k], layers[k + 1]))]]]]

\* biases: a zero vector of size layers[k+1] per layer
InitialBiases(layers) ==
    [k \in 1..(Len(layers) - 1) |-> ZeroVector(layers[k + 1])]

RECURSIVE FillWeights(_, _, _, _, _, _)
\* the loops "for i < outputSize, for j < inputSize" of initializeWeights on
\* the (0-based) layer: p counts the cells done, g is the state of the
\* generator, draws the log of the draws made so far
FillWeights(layers, m, layer, p, g, draws) ==
    LET inputSize  == layers[layer + 1]
        outputSize == layers[layer + 2]
    IN  IF p >= outputSize * inputSize THEN [m |-> m, g |-> g, draws |-> draws]
        ELSE FillWeights(layers,
                         MatSetCoeff(m, p \div inputSize, p % inputSize,
                                     Dist(GenStep(g), Stddev(inputSize, outputSize))).m,
                         layer, p + 1, GenStep(g),
                         Append(draws, [layer |-> layer, i |-> p \div inputSize,
                                        j |-> p % inputSize, g |-> GenStep(g)]))

\* the loop "for i < outputSize" that sets the biases of one layer to 0
ZeroedBias(b, outputSize) ==
    [i \in 1..Len(b) |-> IF i <= outputSize THEN 0 ELSE b[i]]

RECURSIVE InitLayersReseeded(_, _, _, _, _, _)
\* a plausible slip of initializeWeights: the generator is built inside the
\* layer loop, so every layer starts from the seed again
InitLayersReseeded(layers, W, B, layer, g, draws) ==
    IF layer >= Len(W) THEN [weights |-> W, biases |-> B, draws |-> draws]
    ELSE LET f == FillWeights(layers, W[layer + 1], layer, 0, DefaultSeed % 16, draws)
         IN  InitLayersReseeded(layers, [W EXCEPT ![layer + 1] = f.m],
                                [B EXCEPT ![layer + 1] = ZeroedBias(@, layers[layer + 2])],
                                layer + 1, f.g, f.draws)

RECURSIVE InitLayers(_, _, _, _, _, _)
\* the loop "for (size_t layer = 0; layer < m_weights.size(); ++layer)" of
\* initializeWeights: the generator state g goes from one layer to the next
InitLayers(layers, W, B, layer, g, draws) ==
    IF layer >= Len(W) THEN [weights |-> W, biases |-> B, draws |-> draws]
    ELSE LET f == FillWeights(layers, W[layer + 1], layer, 0, g, draws)
         IN  InitLayers(layers, [W EXCEPT ![layer + 1] = f.m],
                        [B EXCEPT ![layer + 1] = ZeroedBias(@, layers[layer + 2])],
                        layer + 1, f.g, f.draws)

\* initializeWeights(seed) step by step: "std::mt19937 gen(seed)" once, then
\* the layer loop
InitializeWeights(layers, W, B, seed) == InitLayers(layers, W, B, 0, seed % 16, <<>>)

\* a plausible slip of the constructor: the weight matrices are allocated
\* with rows and columns exchanged
ConstructTransposed(layers, learningRate) ==
    LET init == InitializeWeights(layers,
                    [k \in 1..(Len(layers) - 1) |-> ZeroMatrix(layers[k], layers[k + 1])],
                    [k \in 1..(Len(layers) - 1) |-> ZeroVector(layers[k + 1])],
                    DefaultSeed)
    IN  [layers |-> layers, learningRate |-> learningRate,
         activation |-> "sigmoid", loss |-> "meanSquaredError",
         weights |-> IF Len(layers) < 2 THEN <<>> ELSE init.weights,
         biases |-> IF Len(layers) < 2 THEN <<>> ELSE init.biases,
         draws |-> IF Len(layers) < 2 THEN <<>> ELSE init.draws,
         err |-> Len(layers) < 2]

\* NeuralNetwork(layers, learningRate): the fields of the object built, the
\* log of the draws of initializeWeights and whether the error of a list of
\* fewer than 2 layers was reported (the constructor then returns at once)
Construct(layers, learningRate) ==
    LET init == InitializeWeights(layers,
                    [k \in 1..(Len(layers) - 1) |-> ZeroMatrix(layers[k + 1], layers[k])],
                    [k \in 1..(Len(layers) - 1) |-> ZeroVector(layers[k + 1])],
                    DefaultSeed)
    IN  [layers |-> layers, learningRate |-> learningRate,
         activation |-> "sigmoid", loss |-> "meanSquaredError",
         weights |-> IF Len(layers) < 2 THEN <<>> ELSE init.weights,
         biases |-> IF Len(layers) < 2 THEN <<>> ELSE init.biases,
         draws |-> IF Len(layers) < 2 THEN <<>> ELSE init.draws,
         err |-> Len(layers) < 2]

(***************************************************************************)
(* NeuralNetwork<T>::forward.  Returns the value returned, the transient   *)
(* state the call leaves and whether the size error was reported.          *)
(***************************************************************************)
RECURSIVE ForwardLoop(_, _, _, _, _, _)
\* the loop over the layers (layer is 0-based, as in the code):
\* z = W * a + b, then a = sigmoid(z), both appended to the transient lists
ForwardLoop(W, B, layer, cur, acts, pre) ==
    IF layer >= Len(W) THEN [ret |-> cur, acts |-> acts, pre |-> pre, err |-> FALSE]
    ELSE Only({ForwardLoop(W, B, layer + 1, SigmoidVec(z),
                           Append(acts, SigmoidVec(z)), Append(pre, z)) :
                 z \in {VecAdd(MatVec(W[layer + 1], cur), B[layer + 1])}})

\* a plausible slip of forward: the transient lists are not cleared first
ForwardAccumulates(layers, W, B, acts, pre, input) ==
    IF Len(input) # layers[1]
    THEN [ret |-> ZeroVector(layers[Len(layers)]), acts |-> acts, pre |-> pre,
          err |-> TRUE]
    ELSE ForwardLoop(W, B, 0, input, Append(acts, input), pre)

\* a plausible slip of forward: the error path clears the transient state
ForwardErrorClears(layers, W, B, acts, pre, input) ==
    IF Len(input) # layers[1]
    THEN [ret |-> ZeroVector(layers[Len(layers)]), acts |-> <<>>, pre |-> <<>>,
          err |-> TRUE]
    ELSE ForwardLoop(W, B, 0, input, <<input>>, <<>>)

Forward(layers, W, B, acts, pre, input) ==
    IF Len(input) # layers[1]
    THEN [ret |-> ZeroVector(layers[Len(layers)]), acts |-> acts, pre |-> pre,
          err |-> TRUE]
    ELSE ForwardLoop(W, B, 0, input, <<input>>, <<>>)

\* a plausible slip of predict: an input of the wrong size yields an empty
\* vector instead of forward's fallback
PredictWithoutFallback(layers, W, B, acts, pre, input) ==
    IF Len(input) # layers[1]
    THEN [ret |-> ZeroVector(0), acts |-> acts, pre |-> pre, err |-> TRUE]
    ELSE Forward(layers, W, B, acts, pre, input)

\* predict(input): "return forward(input);"
Predict(layers, W, B, acts, pre, input) ==
    Forward(layers, W, B, acts, pre, input)

(***************************************************************************)
(* NeuralNetwork<T>::backward.                                             *)
(*                                                                         *)
(* m_preActivations[k] and m_activations[k] are unchecked std::vector      *)
(* reads.  When the list is too short (no forward call has filled it yet   *)
(* and the internal forward returned early) the read is undefined          *)
(* behaviour: PreAt / ActAt then yield gz / ga, a value chosen by the      *)
(* caller of Backward among the outcomes of the read, and oob is set.      *)
(***************************************************************************)
PreAt(pre, k, gz) == IF k < Len(pre) THEN pre[k + 1] ELSE gz

ActAt(acts, k, ga) == IF k < Len(acts) THEN acts[k + 1] ELSE ga

Reverse(s) == [i \in 1..Len(s) |-> s[Len(s) + 1 - i]]

RECURSIVE DeltaLoopFromOutputDelta(_, _, _, _, _, _, _)
\* a plausible slip of the loop: every hidden delta is computed from the
\* delta of the output layer, deltas[0]
DeltaLoopFromOutputDelta(W, pre, lastLayer, layer, deltas, hf, gz) ==
    IF layer < 0 THEN deltas
    ELSE LET W_transpose   == Transpose(W[layer + 2])
             weightedDelta == MatVec(W_transpose, deltas[1])
             sigmoidDeriv  == SigmoidDerivativeVec(PreAt(pre, layer, gz))
             currentDelta  == Hadamard(weightedDelta, sigmoidDeriv, hf)
         IN  DeltaLoopFromOutputDelta(W, pre, lastLayer, layer - 1,
                                      Append(deltas, currentDelta), hf, gz)

RECURSIVE DeltaLoop(_, _, _, _, _, _, _)
\* the loop "for (int layer = lastLayer - 1; layer >= 0; --layer)"
DeltaLoop(W, pre, lastLayer, layer, deltas, hf, gz) ==
    IF layer < 0 THEN deltas
    ELSE LET W_transpose   == Transpose(W[layer + 2])
             weightedDelta == MatVec(W_transpose, deltas[lastLayer - layer])
             sigmoidDeriv  == SigmoidDerivativeVec(PreAt(pre, layer, gz))
             currentDelta  == Hadamard(weightedDelta, sigmoidDeriv, hf)
         IN  DeltaLoop(W, pre, lastLayer, layer - 1,
                       Append(deltas, currentDelta), hf, gz)

\* deltas of all layers, in layer order (after std::reverse)
Deltas(W, pre, output, target, hf, gz) ==
    LET dLoss        == MeanSquaredErrorDerivative(output, target)
        lastLayer    == Len(W) - 1
        sigmoidDeriv == SigmoidDerivativeVec(PreAt(pre, lastLayer, gz))
        delta        == Hadamard(dLoss, sigmoidDeriv, hf)
    IN  Reverse(DeltaLoop(W, pre, lastLayer, lastLayer - 1, <<delta>>, hf, gz))

RECURSIVE UpdateLoop(_, _, _, _, _, _, _, _)
\* the loop "for (size_t layer = 0; layer < m_weights.size(); ++layer)":
\* W and B so far, and the assignments made so far, in order
UpdateLoop(W, B, lr, acts, deltas, layer, ga, writes) ==
    IF layer >= Len(W) THEN [W |-> W, B |-> B, writes |-> writes]
    ELSE LET gradient     == OuterProduct(deltas[layer + 1], ActAt(acts, layer, ga))
             weightUpdate == MatScale(gradient, lr)
         IN  UpdateLoop([W EXCEPT ![layer + 1] = MatSub(W[layer + 1], weightUpdate)],
                        [B EXCEPT ![layer + 1] =
                           VecSub(B[layer + 1], VecScale(deltas[layer + 1], lr))],
                        lr, acts, deltas, layer + 1, ga,
                        writes \o <<[var |-> "m_weights", layer |-> layer],
                                    [var |-> "m_biases", layer |-> layer]>>)

\* the update loop of backward and its result, from the forward result f and
\* the deltas (layer k of the code is index k + 1 here)
Updated(W, B, lr, f, deltas, target, ga) ==
    Only({[loss   |-> MeanSquaredError(f.ret, target),
           W      |-> u.W,
           B      |-> u.B,
           acts   |-> f.acts, pre |-> f.pre, deltas |-> deltas,
           output |-> f.ret, writes |-> u.writes,
           err    |-> f.err,
           oob    |-> Len(f.pre) < Len(W) \/ Len(f.acts) < Len(W)] :
            u \in {UpdateLoop(W, B, lr, f.acts, deltas, 0, ga, <<>>)}})

\* a plausible slip of backward: the stored state is used without running forward
BackwardSkipsForward(layers, W, B, lr, acts, pre, input, target, hf, gz, ga) ==
    Only({Updated(W, B, lr, f, Deltas(W, f.pre, f.ret, target, hf, gz), target, ga) :
            f \in {[ret |-> IF Len(acts) > 0 THEN acts[Len(acts)]
                            ELSE ZeroVector(layers[Len(layers)]),
                    acts |-> acts, pre |-> pre, err |-> FALSE]}})

\* backward(input, target): forward(input), then the deltas, then the update.
\* (f and d are bound as set elements so that each is computed once.)
Backward(layers, W, B, lr, acts, pre, input, target, hf, gz, ga) ==
    Only({Updated(W, B, lr, fd[1], fd[2], target, ga) :
            fd \in {<<f, Deltas(W, f.pre, f.ret, target, hf, gz)>> :
                      f \in {Forward(layers, W, B, acts, pre, input)}}})

(***************************************************************************)
(* NeuralNetwork<T>::train.  A value of type T that may be the result of   *)
(* 0 / 0 is a record: nan tells whether it is NaN, v is its value if not.  *)
(***************************************************************************)
\* totalLoss / inputs.size(): totalLoss is 0 when there is no example
FDiv(total, n) ==
    IF n = 0 THEN [nan |-> TRUE, v |-> 0]
    ELSE [nan |-> FALSE, v |-> total \div n]

\* the network state after backward result b on example i of epoch epoch
AfterExample(st, b, epoch, i, input, target) ==
    [W |-> b.W, B |-> b.B, acts |-> b.acts, pre |-> b.pre,
     totalLoss |-> st.totalLoss + b.loss,
     trace |-> Append(st.trace,
                      [epoch |-> epoch, i |-> i, input |-> input,
                       target |-> target, loss |-> b.loss, W |-> st.W,
                       B |-> st.B, acts |-> st.acts, pre |-> st.pre]),
     oob |-> st.oob \/ b.oob,
     history |-> st.history, log |-> st.log]

RECURSIVE TrainExamples(_, _, _, _, _, _, _, _, _, _, _)
\* the inner loop "for (size_t i = 0; i < inputs.size(); ++i)" of one epoch;
\* st is the network state so far, i is 0-based.  (s and b are bound as
\* set elements so that each is computed once.)
TrainExamples(layers, lr, inputs, targets, epoch, i, st, hf, gz, ga, n) ==
    IF i >= n THEN st
    ELSE Only({TrainExamples(layers, lr, inputs, targets, epoch, i + 1,
                             AfterExample(s, b, epoch, i, inputs[i + 1],
                                          targets[i + 1]),
                             hf, gz, ga, n) :
                 <<s, b>> \in {<<s0, Backward(layers, s0.W, s0.B, lr, s0.acts, s0.pre,
                                             inputs[i + 1], targets[i + 1],
                                             hf, gz, ga)>> : s0 \in {st}}})

\* the network state after the examples of epoch epoch left it as e
AfterEpoch(e, epoch, epochs, verbose, n) ==
    [e EXCEPT !.history = Append(e.history, FDiv(e.totalLoss, n)),
              !.log = IF verbose /\ (epoch % 100 = 0 \/ epoch = epochs - 1)
                      THEN Append(e.log, epoch)
                      ELSE e.log]

RECURSIVE TrainEpochs(_, _, _, _, _, _, _, _, _, _, _)
\* the outer loop "for (size_t epoch = 0; epoch < epochs; ++epoch)"
TrainEpochs(layers, lr, inputs, targets, epochs, verbose, epoch, st, hf, gz, ga) ==
    IF epoch >= epochs THEN st
    ELSE Only({TrainEpochs(layers, lr, inputs, targets, epochs, verbose, epoch + 1,
                           AfterEpoch(e, epoch, epochs, verbose, Len(inputs)),
                           hf, gz, ga) :
                 e \in {TrainExamples(layers, lr, inputs, targets, epoch, 0,
                                      [st EXCEPT !.totalLoss = 0], hf, gz, ga,
                                      Len(inputs))}})

\* a plausible slip of train: the size check is missing and the loop runs
\* over the examples that have both an input and a target
TrainNoSizeCheck(layers, W, B, lr, acts, pre, inputs, targets, epochs, verbose, hf, gz, ga) ==
    LET n   == Min2(Len(inputs), Len(targets))
        st0 == [W |-> W, B |-> B, acts |-> acts, pre |-> pre, totalLoss |-> 0,
                trace |-> <<>>, oob |-> FALSE, history |-> <<>>, log |-> <<>>]
        r   == TrainEpochs(layers, lr, SubSeq(inputs, 1, n), SubSeq(targets, 1, n),
                           epochs, verbose, 0, st0, hf, gz, ga)
    IN  [r EXCEPT !.totalLoss = 0] @@ [err |-> FALSE]

Train(layers, W, B, lr, acts, pre, inputs, targets, epochs, verbose, hf, gz, ga) ==
    LET st0 == [W |-> W, B |-> B, acts |-> acts, pre |-> pre, totalLoss |-> 0,
                trace |-> <<>>, oob |-> FALSE, history |-> <<>>, log |-> <<>>]
    IN  IF Len(inputs) # Len(targets)
        THEN st0 @@ [err |-> TRUE]
        ELSE [TrainEpochs(layers, lr, inputs, targets, epochs, verbose, 0, st0,
                          hf, gz, ga) EXCEPT !.totalLoss = 0] @@ [err |-> FALSE]

(***************************************************************************)
(* Persistence.  The model file is the sequence of its whitespace-         *)
(* delimited tokens; a token is a record, n its numeric value (for a       *)
(* number) and s its text (for a name).                                    *)
(***************************************************************************)
NumTok(v) == [s |-> "", n |-> v]

StrTok(x) == [s |-> x, n |-> 0]

\* "file << value" for a value of type T: the text keeps the stream's
\* precision, here the nearest multiple of Quantum (halves round up)
Written(v) == ((2 * v + Quantum) \div (2 * Quantum)) * Quantum

\* a plausible slip of save: the weights are written column by column
WeightTokensByColumn(m) ==
    [p \in 1..(m.rows * m.cols) |->
       NumTok(Written(m.data[((p - 1) % m.rows) + 1][((p - 1) \div m.rows) + 1]))]

\* the weights of one matrix, row by row ("for i < rows, for j < cols")
WeightTokens(m) ==
    [p \in 1..(m.rows * m.cols) |->
       NumTok(Written(m.data[((p - 1) \div m.cols) + 1][((p - 1) % m.cols) + 1]))]

BiasTokens(b) == [i \in 1..Len(b) |-> NumTok(Written(b[i]))]

RECURSIVE LayerTokens(_, _, _)
\* the loop "for (size_t layer = 0; layer < m_weights.size(); ++layer)" of
\* save, from (0-based) layer on
LayerTokens(W, B, layer) ==
    IF layer >= Len(W) THEN <<>>
    ELSE <<NumTok(W[layer + 1].rows), NumTok(W[layer + 1].cols)>>
         \o WeightTokens(W[layer + 1])
         \o BiasTokens(B[layer + 1])
         \o LayerTokens(W, B, layer + 1)

\* the tokens save writes to an opened file
SaveTokens(layers, W, B, lr, activation, loss) ==
    <<NumTok(Len(layers))>>
    \o [i \in 1..Len(layers) |-> NumTok(layers[i])]
    \o <<NumTok(Written(lr)), StrTok(activation), StrTok(loss)>>
    \o LayerTokens(W, B, 0)

\* "file >> x" for a number at token position p.  When the stream has no
\* such token (it is not open, or at its end) the extraction fails and x,
\* an uninitialised local, keeps an indeterminate value g.
ReadNum(toks, p, g) == IF p <= Len(toks) THEN toks[p].n ELSE g

\* "file >> m_activation": a failed extraction leaves the empty string
ReadStr(toks, p) == IF p <= Len(toks) THEN toks[p].s ELSE ""

\* a plausible slip of the loading constructor: the matrix is read by column
LoadedMatrixByColumn(toks, p, rows, cols, g) ==
    [rows |-> rows, cols |-> cols,
     data |-> [i \in 1..rows |->
                 [j \in 1..cols |-> ReadNum(toks, p + (j - 1) * rows + (i - 1), g)]]]

\* the matrix the loading constructor fills from the tokens at p, p+1, ...
LoadedMatrix(toks, p, rows, cols, g) ==
    [rows |-> rows, cols |-> cols,
     data |-> [i \in 1..rows |->
                 [j \in 1..cols |-> ReadNum(toks, p + (i - 1) * cols + (j - 1), g)]]]

RECURSIVE LoadLayers(_, _, _, _, _, _, _)
\* the loop "for (size_t layer = 0; layer < numLayers - 1; ++layer)" of the
\* loading constructor; p is the position of the next token
LoadLayers(toks, p, layer, numLayers, W, B, g) ==
    IF layer >= numLayers - 1 THEN [W |-> W, B |-> B, p |-> p]
    ELSE LET rows == ReadNum(toks, p, g)
             cols == ReadNum(toks, p + 1, g)
             m    == LoadedMatrix(toks, p + 2, rows, cols, g)
             b    == [i \in 1..rows |-> ReadNum(toks, p + 2 + rows * cols + (i - 1), g)]
         IN  LoadLayers(toks, p + 2 + rows * cols + rows, layer + 1, numLayers,
                        Append(W, m), Append(B, b), g)

\* NeuralNetwork(const std::string& filename) on the token stream toks of the
\* file; opened tells whether the file could be opened (toks is then <<>>
\* and every extraction fails).  There is no return after the error report.
\* numLayers is a size_t: with numLayers = 0 the bound numLayers - 1 wraps
\* around and the loop does not end (wraps).
Load(toks, opened, g) ==
    LET numLayers == ReadNum(toks, 1, g)
        layers    == [i \in 1..numLayers |-> ReadNum(toks, 1 + i, g)]
        ll        == LoadLayers(toks, numLayers + 5, 0, numLayers, <<>>, <<>>, g)
    IN  [layers       |-> layers,
         learningRate |-> ReadNum(toks, numLayers + 2, g),
         activation   |-> ReadStr(toks, numLayers + 3),
         loss         |-> ReadStr(toks, numLayers + 4),
         weights      |-> ll.W,
         biases       |-> ll.B,
         err          |-> ~opened,
         extractions  |-> ll.p - 1,
         failed       |-> ll.p - 1 > Len(toks),
         wraps        |-> numLayers = 0]

(***************************************************************************)
(* State.  One NeuralNetwork object built by the layer-list constructor    *)
(* (its fields keep their names), the model file, the object the loading   *)
(* constructor built last, and a record of the last call with the state    *)
(* it started from.                                                        *)
(***************************************************************************)
VARIABLES
    m_layers,          \* layer sizes
    m_weights,         \* weight matrices, one per pair of consecutive layers
    m_biases,          \* bias vectors
    m_learningRate,
    m_activation,      \* activation function name
    m_loss,            \* loss function name
    m_activations,     \* transient: activations of the last forward pass
    m_preActivations,  \* transient: pre-activations of the last forward pass
    hadamardFallback,  \* size policy of Vector::hadamard on a mismatch
    file,              \* the model file: exists, tokens
    loaded,            \* the object built by NeuralNetwork(filename)
    call,              \* the last call, its arguments, result and pre-state
    calls,             \* number of calls made
    budget,            \* number of calls the behaviour may make
    crashed,           \* the process was ended by an invalid memory access
    la                 \* the last operation applied on its own (LinalgSpec)

vars == <<m_layers, m_weights, m_biases, m_learningRate, m_activation, m_loss,
          m_activations, m_preActivations, hadamardFallback, file, loaded,
          call, calls, budget, crashed, la>>

netVars == <<m_layers, m_weights, m_biases, m_learningRate, m_activation, m_loss>>

transientVars == <<m_activations, m_preActivations>>

\* layer lists given to the constructor
LayerLists == {<<2, 1>>, <<1, 2, 1>>, <<2, 2, 2>>, <<1, 2, 2, 1>>}

\* learning rates given to the constructor and to setLearningRate
LearningRates == {Scale \div 2, Scale}

\* vectors passed as inputs and targets (sizes 1 and 2, so each network
\* sees inputs and targets of the right and of the wrong size)
Vecs == {<<Scale>>, <<0, Scale>>, <<Scale, Scale>>}

\* datasets passed to train
DataSets ==
    {[inputs |-> <<>>, targets |-> <<>>],
     [inputs |-> <<<<Scale>>, <<0>>>>, targets |-> <<<<0>>, <<Scale>>>>],
     [inputs |-> <<<<0, Scale>>, <<Scale, Scale>>>>,
      targets |-> <<<<Scale>>, <<0>>>>],
     [inputs |-> <<<<Scale, Scale>>, <<0, Scale>>>>,
      targets |-> <<<<0, Scale>>, <<Scale, 0>>>>],
     [inputs |-> <<<<0, Scale>>, <<Scale, Scale>>>>, targets |-> <<<<Scale>>>>]}

\* values an out-of-range read of a std::vector<Vector<T>> may yield
GarbageVecs == {<<>>, <<Scale, 0 - Scale>>}

\* values a failed extraction may leave in an uninitialised size_t or T
GarbageNums == {0, 2}

\* the fields of a network that save writes
NetOf(layers, W, B, lr, activation, loss) ==
    [layers |-> layers, weights |-> W, biases |-> B, learningRate |-> lr,
     activation |-> activation, loss |-> loss]

\* no model file; net is the network the file was written from
NoFile == [exists |-> FALSE, toks |-> <<>>,
           net |-> NetOf(<<>>, <<>>, <<>>, 0, "", "")]

NoObject ==
    [built |-> FALSE, layers |-> <<>>, learningRate |-> 0, activation |-> "",
     loss |-> "", weights |-> <<>>, biases |-> <<>>, err |-> FALSE,
     extractions |-> 0, failed |-> FALSE, wraps |-> FALSE]

NoCall ==
    [op |-> "none", returned |-> TRUE, err |-> FALSE, oob |-> FALSE,
     input |-> <<>>, target |-> <<>>, inputs |-> <<>>, targets |-> <<>>,
     epochs |-> 0, verbose |-> FALSE,
     ret |-> <<>>, loss |-> 0, history |-> <<>>, log |-> <<>>, trace |-> <<>>,
     output |-> <<>>, deltas |-> <<>>, writes |-> <<>>,
     saved |-> FALSE, opened |-> FALSE,
     preW |-> <<>>, preB |-> <<>>, preLr |-> 0,
     preActs |-> <<>>, prePre |-> <<>>, preFile |-> NoFile]

\* the last call record of a call that starts in the current state
ThisCall(op) ==
    [NoCall EXCEPT !.op = op, !.preW = m_weights, !.preB = m_biases,
                   !.preLr = m_learningRate, !.preActs = m_activations,
                   !.prePre = m_preActivations, !.preFile = file]

NoLinalg == [op |-> "none", m |-> ZeroMatrix(0, 0), v |-> <<>>, res |-> <<>>]

\* operands of the linear-algebra operations
LaDims == {0, 1, 2}

LaValues == {0 - Scale, 0, Scale \div 2}

LaVectors == UNION {[1..n -> LaValues] : n \in LaDims \cup {3}}

LaMatrices ==
    UNION {{[rows |-> r, cols |-> c, data |-> d] : d \in [1..r -> [1..c -> LaValues]]} :
             <<r, c>> \in LaDims \X LaDims}

\* layer lists given to the constructor on its own (0 to 3 layers)
CtorLayerLists == UNION {[1..n -> 1..3] : n \in 0..3}

\* operands with integer elements: the integer n of an integral element
\* type (or the float n.0) is the fixed-point number n * Scale, on which the
\* fixed-point sum, difference and product are the integer ones
LaIntValues == {0 - Scale, 0, 2 * Scale}

LaIntVectors == UNION {[1..n -> LaIntValues] : n \in LaDims}

\* entries of the matrices of a triple product
LaAssocValues == {0 - Scale, 2 * Scale}

LaAssocMatrices ==
    UNION {{[rows |-> r, cols |-> c, data |-> d] :
              d \in [1..r -> [1..c -> LaAssocValues]]} : <<r, c>> \in LaDims \X LaDims}

IntegralVec(v) == \A i \in 1..Len(v) : v[i] % Scale = 0

IntegralMat(m) == \A i \in 1..m.rows : \A j \in 1..m.cols : m.data[i][j] % Scale = 0

\* lists of at most n setCoeff calls on a vector: index (in and out of
\* range) and value
VecWriteLists(n) ==
    UNION {[1..k -> [i : LaDims, value : LaValues]] : k \in 0..n}

\* lists of at most n setCoeff calls on a matrix
MatWriteLists(n) ==
    UNION {[1..k -> [i : LaDims, j : LaDims, value : LaValues]] : k \in 0..n}

\* weights and biases of a network of layers {1, 1, 1, 1} as training or a
\* model file may leave them: one 1x1 matrix and one bias per layer
DeepWeights == {0 - 2 * Scale, 2 * Scale, 4 * Scale}

DeepBiases == {0 - (3 * Scale) \div 2, 0 - Scale, 0}

DeepNets ==
    {[layers  |-> <<1, 1, 1, 1>>,
      weights |-> [k \in 1..3 |-> [rows |-> 1, cols |-> 1, data |-> <<<<w[k]>>>>]],
      biases  |-> [k \in 1..3 |-> <<b[k]>>]] :
       <<w, b>> \in [1..3 -> DeepWeights] \X [1..3 -> DeepBiases]}

\* NeuralNetwork(layers, learningRate) with at least 2 layers
Init ==
    /\ m_layers \in LayerLists
    /\ m_learningRate \in {Scale \div 2}
    /\ m_activation = "sigmoid"
    /\ m_loss = "meanSquaredError"
    /\ m_weights = InitialWeights(m_layers, DefaultSeed)
    /\ m_biases = InitialBiases(m_layers)
    /\ m_activations = <<>>
    /\ m_preActivations = <<>>
    /\ hadamardFallback \in HadamardFallbacks
    /\ file = NoFile
    /\ loaded = NoObject
    /\ call = NoCall
    /\ calls = 0
    /\ budget = MaxCalls
    /\ crashed = FALSE
    /\ la = NoLinalg

CanCall == ~crashed /\ calls < budget

\* forward(input)
ForwardCall ==
    /\ CanCall
    /\ \E input \in Vecs :
         \E f \in {Forward(m_layers, m_weights, m_biases, m_activations,
                            m_preActivations, input)} :
             /\ m_activations' = f.acts
             /\ m_preActivations' = f.pre
             /\ call' = [ThisCall("forward") EXCEPT !.input = input, !.ret = f.ret,
                                                    !.err = f.err]
    /\ calls' = calls + 1
    /\ UNCHANGED <<netVars, hadamardFallback, file, loaded, budget, crashed, la>>

\* predict(input): return forward(input)
PredictCall ==
    /\ CanCall
    /\ \E input \in Vecs :
         \E f \in {Predict(m_layers, m_weights, m_biases, m_activations,
                            m_preActivations, input)} :
             /\ m_activations' = f.acts
             /\ m_preActivations' = f.pre
             /\ call' = [ThisCall("predict") EXCEPT !.input = input, !.ret = f.ret,
                                                    !.err = f.err]
    /\ calls' = calls + 1
    /\ UNCHANGED <<netVars, hadamardFallback, file, loaded, budget, crashed, la>>

\* backward reads m_preActivations[lastLayer] although the list is empty:
\* no forward pass has succeeded and the internal forward returns early
BackwardReadsOutOfRange(input) ==
    Len(input) # m_layers[1] /\ Len(m_preActivations) < Len(m_weights)

\* backward(input, target).  An out-of-range read either ends the process
\* or yields some value (gz for a pre-activation, ga for an activation).
BackwardCall ==
    /\ CanCall
    /\ \E input \in Vecs, target \in Vecs :
         \/ /\ BackwardReadsOutOfRange(input)
            /\ call' = [ThisCall("backward") EXCEPT !.input = input,
                          !.target = target, !.returned = FALSE, !.err = TRUE,
                          !.oob = TRUE]
            /\ crashed' = TRUE
            /\ UNCHANGED <<m_weights, m_biases, transientVars>>
         \/ \E gz \in GarbageVecs, ga \in GarbageVecs :
              /\ BackwardReadsOutOfRange(input) \/ (gz = <<>> /\ ga = <<>>)
              /\ \E b \in {Backward(m_layers, m_weights, m_biases, m_learningRate,
                                      m_activations, m_preActivations, input,
                                      target, hadamardFallback, gz, ga)} :
                     /\ m_weights' = b.W
                     /\ m_biases' = b.B
                     /\ m_activations' = b.acts
                     /\ m_preActivations' = b.pre
                     /\ call' = [ThisCall("backward") EXCEPT !.input = input,
                                   !.target = target, !.loss = b.loss,
                                   !.output = b.output, !.deltas = b.deltas,
                                   !.writes = b.writes,
                                   !.err = b.err, !.oob = b.oob]
              /\ crashed' = FALSE
    /\ calls' = calls + 1
    /\ UNCHANGED <<m_layers, m_learningRate, m_activation, m_loss,
                   hadamardFallback, file, loaded, budget, la>>

\* the first backward call of train reads out of range
TrainReadsOutOfRange(d, epochs) ==
    /\ Len(d.inputs) = Len(d.targets)
    /\ Len(d.inputs) > 0
    /\ epochs > 0
    /\ BackwardReadsOutOfRange(d.inputs[1])

\* train(inputs, targets, epochs, verbose)
TrainCall ==
    /\ CanCall
    /\ \E d \in DataSets, epochs \in 0..MaxEpochs, verbose \in BOOLEAN :
         \/ /\ TrainReadsOutOfRange(d, epochs)
            /\ call' = [ThisCall("train") EXCEPT !.inputs = d.inputs,
                          !.targets = d.targets, !.epochs = epochs,
                          !.verbose = verbose, !.returned = FALSE, !.oob = TRUE]
            /\ crashed' = TRUE
            /\ UNCHANGED <<m_weights, m_biases, transientVars>>
         \/ \E gz \in GarbageVecs, ga \in GarbageVecs :
              /\ TrainReadsOutOfRange(d, epochs) \/ (gz = <<>> /\ ga = <<>>)
              /\ \E t \in {Train(m_layers, m_weights, m_biases, m_learningRate,
                                   m_activations, m_preActivations, d.inputs,
                                   d.targets, epochs, verbose, hadamardFallback,
                                   gz, ga)} :
                     /\ m_weights' = t.W
                     /\ m_biases' = t.B
                     /\ m_activations' = t.acts
                     /\ m_preActivations' = t.pre
                     /\ call' = [ThisCall("train") EXCEPT !.inputs = d.inputs,
                                   !.targets = d.targets, !.epochs = epochs,
                                   !.verbose = verbose, !.history = t.history,
                                   !.log = t.log, !.trace = t.trace,
                                   !.err = t.err, !.oob = t.oob]
              /\ crashed' = FALSE
    /\ calls' = calls + 1
    /\ UNCHANGED <<m_layers, m_learningRate, m_activation, m_loss,
                   hadamardFallback, file, loaded, budget, la>>

\* setLearningRate(learningRate)
SetLearningRateCall ==
    /\ CanCall
    /\ \E lr \in LearningRates :
         /\ lr # m_learningRate
         /\ m_learningRate' = lr
    /\ call' = ThisCall("setLearningRate")
    /\ calls' = calls + 1
    /\ UNCHANGED <<m_layers, m_weights, m_biases, m_activation, m_loss,
                   transientVars, hadamardFallback, file, loaded, budget, crashed, la>>

\* save(filename): opened tells whether the ofstream could be opened
SaveCall ==
    /\ CanCall
    /\ \E opened \in BOOLEAN :
         /\ file' = IF opened
                    THEN [exists |-> TRUE,
                          toks |-> SaveTokens(m_layers, m_weights, m_biases,
                                              m_learningRate, m_activation, m_loss),
                          net |-> NetOf(m_layers, m_weights, m_biases,
                                        m_learningRate, m_activation, m_loss)]
                    ELSE file
         /\ call' = [ThisCall("save") EXCEPT !.opened = opened, !.saved = opened,
                                             !.err = ~opened]
    /\ calls' = calls + 1
    /\ UNCHANGED <<netVars, transientVars, hadamardFallback, loaded, budget, crashed, la>>

\* NeuralNetwork(filename): builds a second object from the model file.  The
\* file cannot be opened when it does not exist (or may not be read).
LoadCall ==
    /\ CanCall
    /\ \E opened \in BOOLEAN, g \in GarbageNums :
         /\ opened => file.exists /\ g = 0
         /\ \E l \in {Load(IF opened THEN file.toks ELSE <<>>, opened, g)} :
                /\ loaded' = [l EXCEPT !.weights = IF l.wraps THEN <<>> ELSE @,
                                       !.biases = IF l.wraps THEN <<>> ELSE @]
                                @@ [built |-> ~l.wraps]
                /\ crashed' = l.wraps
                /\ call' = [ThisCall("load") EXCEPT !.opened = opened,
                                                    !.err = l.err,
                                                    !.returned = ~l.wraps]
    /\ calls' = calls + 1
    /\ UNCHANGED <<netVars, transientVars, hadamardFallback, file, budget, la>>

Next ==
    \/ ForwardCall
    \/ PredictCall
    \/ BackwardCall
    \/ TrainCall
    \/ SetLearningRateCall

Spec == Init /\ [][Next]_vars

(***************************************************************************)
(* Behaviours that save the network and build a second object from the     *)
(* file.                                                                   *)
(***************************************************************************)
PersistInit ==
    /\ m_layers \in LayerLists
    /\ m_learningRate \in {Scale \div 2}
    /\ m_activation = "sigmoid"
    /\ m_loss = "meanSquaredError"
    /\ m_weights = InitialWeights(m_layers, DefaultSeed)
    /\ m_biases = InitialBiases(m_layers)
    /\ m_activations = <<>>
    /\ m_preActivations = <<>>
    /\ hadamardFallback \in HadamardFallbacks
    /\ file = NoFile
    /\ loaded = NoObject
    /\ call = NoCall
    /\ calls = 0
    /\ budget = MaxPersistCalls
    /\ crashed = FALSE
    /\ la = NoLinalg

PersistNext ==
    \/ BackwardCall
    \/ SaveCall
    \/ LoadCall

PersistSpec == PersistInit /\ [][PersistNext]_vars

(***************************************************************************)
(* Operations applied on their own: one linear-algebra operation on        *)
(* operands drawn from LaMatrices and LaVectors, or one construction of a  *)
(* network from a layer list drawn from CtorLayerLists.                    *)
(***************************************************************************)
LinalgInit ==
    /\ m_layers = <<2, 1>>
    /\ m_learningRate = Scale \div 2
    /\ m_activation = "sigmoid"
    /\ m_loss = "meanSquaredError"
    /\ m_weights = InitialWeights(m_layers, DefaultSeed)
    /\ m_biases = InitialBiases(m_layers)
    /\ m_activations = <<>>
    /\ m_preActivations = <<>>
    /\ hadamardFallback = "empty"
    /\ file = NoFile
    /\ loaded = NoObject
    /\ call = NoCall
    /\ calls = 0
    /\ budget = 0
    /\ crashed = FALSE
    /\ la = NoLinalg

\* Matrix2D::operator*(const Vector<T>&)
MatVecCall ==
    /\ la.op = "none"
    /\ \E m \in LaMatrices, v \in LaVectors :
         la' = [op |-> "matvec", m |-> m, v |-> v, res |-> MatVec(m, v)]
    /\ UNCHANGED <<netVars, transientVars, hadamardFallback, file, loaded, call,
                   calls, budget, crashed>>

\* NeuralNetwork(layers, learningRate), and a second network built from the
\* same layer list with the other learning rate
ConstructCall ==
    /\ la.op = "none"
    /\ \E layers \in CtorLayerLists, lr \in LearningRates :
         la' = [op |-> "construct", layers |-> layers, learningRate |-> lr,
                net |-> Construct(layers, lr),
                other |-> Construct(layers, Only(LearningRates \ {lr}))]
    /\ UNCHANGED <<netVars, transientVars, hadamardFallback, file, loaded, call,
                   calls, budget, crashed>>

\* Vector::operator+; the operands are not written by the call
VecAddCall ==
    /\ la.op = "none"
    /\ \E a \in LaVectors, b \in LaVectors :
         la' = [op |-> "vecAdd", a |-> a, b |-> b, res |-> VecAdd(a, b),
                err |-> SizeMismatch(a, b), aAfter |-> a, bAfter |-> b]
    /\ UNCHANGED <<netVars, transientVars, hadamardFallback, file, loaded, call,
                   calls, budget, crashed>>

\* Vector::operator-
VecSubCall ==
    /\ la.op = "none"
    /\ \E a \in LaVectors, b \in LaVectors :
         la' = [op |-> "vecSub", a |-> a, b |-> b, res |-> VecSub(a, b),
                err |-> SizeMismatch(a, b), aAfter |-> a, bAfter |-> b]
    /\ UNCHANGED <<netVars, transientVars, hadamardFallback, file, loaded, call,
                   calls, budget, crashed>>

\* Matrix2D::operator+
MatAddCall ==
    /\ la.op = "none"
    /\ \E a \in LaMatrices, b \in LaMatrices :
         la' = [op |-> "matAdd", a |-> a, b |-> b, res |-> MatAdd(a, b),
                err |-> ShapeMismatch(a, b), aAfter |-> a, bAfter |-> b]
    /\ UNCHANGED <<netVars, transientVars, hadamardFallback, file, loaded, call,
                   calls, budget, crashed>>

\* Matrix2D::operator-
MatSubCall ==
    /\ la.op = "none"
    /\ \E a \in LaMatrices, b \in LaMatrices :
         la' = [op |-> "matSub", a |-> a, b |-> b, res |-> MatSub(a, b),
                err |-> ShapeMismatch(a, b), aAfter |-> a, bAfter |-> b]
    /\ UNCHANGED <<netVars, transientVars, hadamardFallback, file, loaded, call,
                   calls, budget, crashed>>

\* Matrix2D::operator*(const Matrix2D&)
MatMulCall ==
    /\ la.op = "none"
    /\ \E a \in LaMatrices, b \in LaMatrices :
         la' = [op |-> "matMul", a |-> a, b |-> b, res |-> MatMul(a, b),
                err |-> a.cols # b.rows, aAfter |-> a, bAfter |-> b]
    /\ UNCHANGED <<netVars, transientVars, hadamardFallback, file, loaded, call,
                   calls, budget, crashed>>

\* Vector::dot
VecDotCall ==
    /\ la.op = "none"
    /\ \E a \in LaVectors, b \in LaVectors :
         la' = [op |-> "dot", a |-> a, b |-> b, res |-> VecDot(a, b),
                err |-> SizeMismatch(a, b), aAfter |-> a, bAfter |-> b]
    /\ UNCHANGED <<netVars, transientVars, hadamardFallback, file, loaded, call,
                   calls, budget, crashed>>

\* (a + b) - b and its comparison with a by Vector::operator==
AddSubCall ==
    /\ la.op = "none"
    /\ \E a \in LaVectors \cup LaIntVectors, b \in LaVectors \cup LaIntVectors :
         \E r \in {VecSub(VecAdd(a, b), b)} :
            la' = [op |-> "addSub", a |-> a, b |-> b, res |-> r, eq |-> VecEq(r, a)]
    /\ UNCHANGED <<netVars, transientVars, hadamardFallback, file, loaded, call,
                   calls, budget, crashed>>

\* (A * B) * C and A * (B * C) for matrices of shapes (m,k), (k,n), (n,p),
\* and their comparison by Matrix2D::operator==
AssocCall ==
    /\ la.op = "none"
    /\ \E a \in LaAssocMatrices, b \in LaAssocMatrices, c \in LaAssocMatrices :
         /\ a.cols = b.rows
         /\ b.cols = c.rows
         /\ \E l \in {MatMul(MatMul(a, b), c)}, r \in {MatMul(a, MatMul(b, c))} :
               la' = [op |-> "assoc", a |-> a, b |-> b, c |-> c, left |-> l,
                      right |-> r, eq |-> MatEq(l, r)]
    /\ UNCHANGED <<netVars, transientVars, hadamardFallback, file, loaded, call,
                   calls, budget, crashed>>

\* Matrix2D::transpose, once and twice; the source is not written
TransposeCall ==
    /\ la.op = "none"
    /\ \E m \in LaMatrices :
         \E t \in {Transpose(m)} : \E tt \in {Transpose(t)} :
            la' = [op |-> "transpose", m |-> m, mAfter |-> m, res |-> t,
                   twice |-> tt, eq |-> MatEq(tt, m)]
    /\ UNCHANGED <<netVars, transientVars, hadamardFallback, file, loaded, call,
                   calls, budget, crashed>>

\* Vector(size_t s), then setCoeff calls, with isZero() before and after each
VecWritesCall ==
    /\ la.op = "none"
    /\ \E s \in LaDims, ws \in VecWriteLists(3) :
         la' = [op |-> "vecWrites", size |-> s, ws |-> ws,
                hist |-> VecHistory(ZeroVector(s), ws)]
    /\ UNCHANGED <<netVars, transientVars, hadamardFallback, file, loaded, call,
                   calls, budget, crashed>>

\* Matrix2D(rows, cols), then setCoeff calls, with isZero() before and after
\* each
MatWritesCall ==
    /\ la.op = "none"
    /\ \E r \in LaDims, c \in LaDims, ws \in MatWriteLists(2) :
         la' = [op |-> "matWrites", rows |-> r, cols |-> c, ws |-> ws,
                hist |-> MatHistory(ZeroMatrix(r, c), ws)]
    /\ UNCHANGED <<netVars, transientVars, hadamardFallback, file, loaded, call,
                   calls, budget, crashed>>

\* v.setCoeff(i, value) on a vector of 0 to 3 elements
VecSetCoeffCall ==
    /\ la.op = "none"
    /\ \E v \in LaVectors, i \in 0..3, value \in LaValues :
         la' = [op |-> "vecSetCoeff", v |-> v, i |-> i, value |-> value,
                res |-> VecSetCoeff(v, i, value)]
    /\ UNCHANGED <<netVars, transientVars, hadamardFallback, file, loaded, call,
                   calls, budget, crashed>>

\* m.setCoeff(i, j, value)
MatSetCoeffCall ==
    /\ la.op = "none"
    /\ \E m \in LaMatrices, i \in LaDims, j \in LaDims, value \in LaValues :
         la' = [op |-> "matSetCoeff", m |-> m, i |-> i, j |-> j,
                value |-> value, res |-> MatSetCoeff(m, i, j, value)]
    /\ UNCHANGED <<netVars, transientVars, hadamardFallback, file, loaded, call,
                   calls, budget, crashed>>

\* m.setRow(i, row)
MatSetRowCall ==
    /\ la.op = "none"
    /\ \E m \in LaMatrices, i \in LaDims, row \in LaVectors :
         la' = [op |-> "matSetRow", m |-> m, i |-> i, vec |-> row,
                res |-> MatSetRow(m, i, row)]
    /\ UNCHANGED <<netVars, transientVars, hadamardFallback, file, loaded, call,
                   calls, budget, crashed>>

\* m.setCol(j, col)
MatSetColCall ==
    /\ la.op = "none"
    /\ \E m \in LaMatrices, j \in LaDims, col \in LaVectors :
         la' = [op |-> "matSetCol", m |-> m, j |-> j, vec |-> col,
                res |-> MatSetCol(m, j, col)]
    /\ UNCHANGED <<netVars, transientVars, hadamardFallback, file, loaded, call,
                   calls, budget, crashed>>

\* m.getRow(i)
MatGetRowCall ==
    /\ la.op = "none"
    /\ \E m \in LaMatrices, i \in LaDims :
         la' = [op |-> "matGetRow", m |-> m, i |-> i, res |-> MatGetRow(m, i)]
    /\ UNCHANGED <<netVars, transientVars, hadamardFallback, file, loaded, call,
                   calls, budget, crashed>>

\* m.getCol(j)
MatGetColCall ==
    /\ la.op = "none"
    /\ \E m \in LaMatrices, j \in LaDims :
         la' = [op |-> "matGetCol", m |-> m, j |-> j, res |-> MatGetCol(m, j)]
    /\ UNCHANGED <<netVars, transientVars, hadamardFallback, file, loaded, call,
                   calls, budget, crashed>>

\* backward(input, target) on a network with two hidden layers
DeepBackwardCall ==
    /\ la.op = "none"
    /\ \E n \in DeepNets, lr \in LearningRates, input \in {<<0>>, <<Scale>>},
          target \in {<<0>>, <<Scale>>}, hf \in HadamardFallbacks :
         la' = [op |-> "backward", preW |-> n.weights, preB |-> n.biases,
                preLr |-> lr, input |-> input, target |-> target, hf |-> hf,
                res |-> Backward(n.layers, n.weights, n.biases, lr, <<>>, <<>>,
                                 input, target, hf, <<>>, <<>>)]
    /\ UNCHANGED <<netVars, transientVars, hadamardFallback, file, loaded, call,
                   calls, budget, crashed>>

LinalgNext ==
    \/ MatVecCall
    \/ ConstructCall
    \/ VecAddCall
    \/ VecSubCall
    \/ MatAddCall
    \/ MatSubCall
    \/ MatMulCall
    \/ VecDotCall
    \/ AddSubCall
    \/ AssocCall
    \/ TransposeCall
    \/ VecWritesCall
    \/ MatWritesCall
    \/ VecSetCoeffCall
    \/ MatSetCoeffCall
    \/ MatSetRowCall
    \/ MatSetColCall
    \/ MatGetRowCall
    \/ MatGetColCall
    \/ DeepBackwardCall

LinalgSpec == LinalgInit /\ [][LinalgNext]_vars

(***************************************************************************)
(* Properties.                                                             *)
(***************************************************************************)
LastLayerSize == m_layers[Len(m_layers)]

\* C1: a matrix-vector multiply whose vector size differs from the matrix's
\* column count returns a zero vector whose length is the matrix's row count.
\* (Violated: the code returns Vector<T>(0), a vector of size 0.)
C1_MismatchedMatVecIsZeroOfRowCount ==
    (la.op = "matvec" /\ Len(la.v) # la.m.cols)
        => (Len(la.res) = la.m.rows /\ VecIsZero(la.res))

\* C2: whatever calls were made, every layer k has weights[k].rows =
\* biases[k].size = layers[k+1] and weights[k].cols = layers[k] (and the
\* stored elements have that shape).
C2_LayerShapes ==
    /\ Len(m_weights) = Len(m_layers) - 1
    /\ Len(m_biases) = Len(m_layers) - 1
    /\ \A k \in 1..(Len(m_layers) - 1) :
         /\ m_weights[k].rows = m_layers[k + 1]
         /\ m_weights[k].cols = m_layers[k]
         /\ Len(m_biases[k]) = m_layers[k + 1]
         /\ Len(m_weights[k].data) = m_layers[k + 1]
         /\ \A i \in 1..m_layers[k + 1] : Len(m_weights[k].data[i]) = m_layers[k]

\* C2 witness: a second call, a backward with a target of the wrong size that
\* returned, on a network a previous call has already updated
C2_Witness ==
    /\ calls >= 2
    /\ call.op = "backward"
    /\ call.returned
    /\ Len(call.target) # LastLayerSize
    /\ call.preW # InitialWeights(m_layers, DefaultSeed)

\* C3: the loss backward returns and the weights and biases it leaves are
\* those of the same call made right after a forward(v) of any valid input v:
\* they do not depend on the transient state the previous calls left.
\* (Violated: with an input of the wrong size the internal forward returns
\* early and the update is computed from the stored state.)
C3_BackwardIgnoresStoredState ==
    (call.op = "backward" /\ call.returned /\ ~call.oob)
        => \A v \in Vecs :
             Len(v) = m_layers[1]
                => \E f \in {Forward(m_layers, call.preW, call.preB, <<>>, <<>>, v)} :
                   \E r \in {Backward(m_layers, call.preW, call.preB, call.preLr,
                                      f.acts, f.pre, call.input, call.target,
                                      hadamardFallback, <<>>, <<>>)} :
                      /\ r.loss = call.loss
                      /\ r.W = m_weights
                      /\ r.B = m_biases

\* C4: forward with an input whose size is not layers[0] reports the size
\* error, returns a zero vector of length layers.back() and propagates
\* nothing: the stored activations and pre-activations, the weights and the
\* biases are as before the call.
C4_ForwardRejectsWrongSize ==
    (call.op = "forward" /\ Len(call.input) # m_layers[1])
        => /\ call.err
           /\ Len(call.ret) = LastLayerSize
           /\ VecIsZero(call.ret)
           /\ m_activations = call.preActs
           /\ m_preActivations = call.prePre
           /\ m_weights = call.preW
           /\ m_biases = call.preB

\* C4 witness: a wrong-size forward made when a forward pass is stored
C4_Witness ==
    /\ call.op = "forward"
    /\ Len(call.input) # m_layers[1]
    /\ call.err
    /\ Len(call.preActs) > 0

\* C5: after a successful forward the stored state holds exactly L
\* activations and L-1 pre-activations, activation 0 is the input, activation
\* k has length layers[k], pre-activation k has length layers[k+1], and the
\* returned vector is the last activation.
C5_ForwardOverwritesTransientState ==
    (call.op = "forward" /\ ~call.err)
        => /\ Len(m_activations) = Len(m_layers)
           /\ Len(m_preActivations) = Len(m_layers) - 1
           /\ m_activations[1] = call.input
           /\ \A k \in 1..Len(m_layers) : Len(m_activations[k]) = m_layers[k]
           /\ \A k \in 1..(Len(m_layers) - 1) :
                Len(m_preActivations[k]) = m_layers[k + 1]
           /\ call.ret = m_activations[Len(m_layers)]
           /\ Len(call.ret) = LastLayerSize

\* C5 witness: a successful forward on a network that already stored the
\* state of an earlier pass with another input
C5_Witness ==
    /\ call.op = "forward"
    /\ ~call.err
    /\ Len(call.preActs) > 0
    /\ call.preActs[1] # call.input

\* the network rebuilt from what the file keeps of network n: every number
\* in its written form
AsWritten(n) ==
    [n EXCEPT !.learningRate = Written(n.learningRate),
              !.weights = [k \in 1..Len(n.weights) |->
                             [n.weights[k] EXCEPT !.data =
                                [i \in 1..n.weights[k].rows |->
                                   [j \in 1..n.weights[k].cols |->
                                      Written(n.weights[k].data[i][j])]]]],
              !.biases = [k \in 1..Len(n.biases) |->
                            [i \in 1..Len(n.biases[k]) |-> Written(n.biases[k][i])]]]

\* the fields of the object built by the loading constructor
LoadedNet ==
    NetOf(loaded.layers, loaded.weights, loaded.biases, loaded.learningRate,
          loaded.activation, loaded.loss)

\* predict(v) on network n, from an empty transient state
PredictOf(n, v) == Forward(n.layers, n.weights, n.biases, <<>>, <<>>, v).ret

\* C6: a network built from the file save wrote has the layers, the names
\* and the shapes of the saved network; its learning rate, weights and
\* biases are the saved ones in their written form, at most half a Quantum
\* away; so predict gives on it what it gives on the saved values as written,
\* which is the output of the saved network up to that precision.
C6_SaveLoadRoundTrip ==
    (call.op = "load" /\ call.opened)
        => /\ call.returned
           /\ loaded.built
           /\ loaded.layers = file.net.layers
           /\ loaded.activation = file.net.activation
           /\ loaded.loss = file.net.loss
           /\ LoadedNet = AsWritten(file.net)
           /\ 2 * Abs(loaded.learningRate - file.net.learningRate) <= Quantum
           /\ Len(loaded.weights) = Len(file.net.weights)
           /\ Len(loaded.biases) = Len(file.net.biases)
           /\ \A k \in 1..Len(loaded.weights) :
                /\ loaded.weights[k].rows = file.net.weights[k].rows
                /\ loaded.weights[k].cols = file.net.weights[k].cols
                /\ Len(loaded.biases[k]) = Len(file.net.biases[k])
                /\ \A i \in 1..loaded.weights[k].rows :
                     /\ 2 * Abs(loaded.biases[k][i] - file.net.biases[k][i]) <= Quantum
                     /\ \A j \in 1..loaded.weights[k].cols :
                          2 * Abs(loaded.weights[k].data[i][j]
                                  - file.net.weights[k].data[i][j]) <= Quantum
           /\ \A v \in Vecs : PredictOf(LoadedNet, v) = PredictOf(AsWritten(file.net), v)
           /\ \A v \in Vecs :
                Len(v) = file.net.layers[1]
                   => \A i \in 1..Len(PredictOf(file.net, v)) :
                        2 * Abs(PredictOf(LoadedNet, v)[i] - PredictOf(file.net, v)[i])
                           <= Quantum

\* C6 witness: a network trained by backward, saved, and loaded back, whose
\* first weight matrix has two rows and two columns and is not symmetric,
\* with a weight the text form does not keep exactly and a predict output
\* that differs from the saved network's
C6_Witness ==
    /\ call.op = "load"
    /\ call.opened
    /\ loaded.built
    /\ file.net.weights # InitialWeights(m_layers, DefaultSeed)
    /\ loaded.weights[1].rows = 2
    /\ loaded.weights[1].cols = 2
    /\ loaded.weights[1].data[1][2] # loaded.weights[1].data[2][1]
    /\ loaded.weights # file.net.weights
    /\ \E v \in Vecs : Len(v) = 2 /\ PredictOf(LoadedNet, v) # PredictOf(file.net, v)

RECURSIVE LayerOffset(_, _)
\* number of tokens before the block of (0-based) layer k in the file of a
\* network with layer sizes layers: 1 + L + 3 + the blocks of layers 0..k-1
LayerOffset(layers, k) ==
    IF k = 0 THEN 1 + Len(layers) + 3
    ELSE LayerOffset(layers, k - 1)
         + 2 + layers[k + 1] * layers[k] + layers[k + 1]

\* C7: save writes, in this order, L, the L layer sizes, the learning rate,
\* the activation name, the loss name and, per layer, rows, cols, rows*cols
\* weights row by row and rows biases: 1 + L + 3 + sum(2 + rows*cols + rows)
\* tokens; the loading constructor reads the same fields from the same
\* positions and consumes exactly those tokens.
C7_FileLayout ==
    /\ (call.op = "save" /\ call.opened)
          => LET L == Len(m_layers)
                 t == file.toks
             IN  /\ Len(t) = LayerOffset(m_layers, L - 1)
                 /\ t[1] = NumTok(L)
                 /\ \A i \in 1..L : t[1 + i] = NumTok(m_layers[i])
                 /\ t[L + 2] = NumTok(Written(m_learningRate))
                 /\ t[L + 3] = StrTok(m_activation)
                 /\ t[L + 4] = StrTok(m_loss)
                 /\ \A k \in 0..(L - 2) :
                      LET o    == LayerOffset(m_layers, k)
                          rows == m_layers[k + 2]
                          cols == m_layers[k + 1]
                      IN  /\ t[o + 1] = NumTok(rows)
                          /\ t[o + 2] = NumTok(cols)
                          /\ \A i \in 1..rows : \A j \in 1..cols :
                               t[o + 2 + (i - 1) * cols + j]
                                  = NumTok(Written(m_weights[k + 1].data[i][j]))
                          /\ \A i \in 1..rows :
                               t[o + 2 + rows * cols + i]
                                  = NumTok(Written(m_biases[k + 1][i]))
    /\ (call.op = "load" /\ call.opened)
          => LET L == Len(loaded.layers)
                 t == file.toks
             IN  /\ loaded.extractions = Len(t)
                 /\ ~loaded.failed
                 /\ t[1].n = L
                 /\ \A i \in 1..L : loaded.layers[i] = t[1 + i].n
                 /\ loaded.learningRate = t[L + 2].n
                 /\ loaded.activation = t[L + 3].s
                 /\ loaded.loss = t[L + 4].s
                 /\ Len(loaded.weights) = L - 1
                 /\ \A k \in 0..(L - 2) :
                      LET o == LayerOffset(loaded.layers, k)
                          w == loaded.weights[k + 1]
                      IN  /\ w.rows = t[o + 1].n
                          /\ w.cols = t[o + 2].n
                          /\ \A i \in 1..w.rows : \A j \in 1..w.cols :
                               w.data[i][j] = t[o + 2 + (i - 1) * w.cols + j].n
                          /\ \A i \in 1..w.rows :
                               loaded.biases[k + 1][i] = t[o + 2 + w.rows * w.cols + i].n

\* C7 witness: the file of a three-layer network trained by backward, and a
\* load that has read it
C7_Witness ==
    /\ call.op = "load"
    /\ call.opened
    /\ m_layers = <<2, 2, 2>>
    /\ Len(file.toks) = 23
    /\ loaded.extractions = 23
    /\ file.net.weights # InitialWeights(m_layers, DefaultSeed)
    /\ file.net.weights[1].data[1][2] # file.net.weights[1].data[2][1]

\* C8: when the file cannot be opened, save returns false and leaves the
\* file as it was, and the loading constructor reports the failure and
\* stops: it extracts no token and builds no layer.
\* (Violated: the constructor has no return after the report and goes on
\* extracting from the unopened stream.)
C8_UnopenedFileStopsTheCall ==
    /\ (call.op = "save" /\ ~call.opened)
          => (call.err /\ ~call.saved /\ file = call.preFile)
    /\ (call.op = "load" /\ ~call.opened)
          => /\ call.err
             /\ call.returned
             /\ loaded.extractions = 0
             /\ loaded.layers = <<>>
             /\ loaded.weights = <<>>
             /\ loaded.biases = <<>>

\* C9: train with inputs.size() # targets.size() reports the error and
\* returns an empty history; backward is not called and the weights, the
\* biases and the transient state are as before the call.
C9_TrainRejectsCountMismatch ==
    (call.op = "train" /\ Len(call.inputs) # Len(call.targets))
        => /\ call.err
           /\ call.returned
           /\ call.history = <<>>
           /\ call.trace = <<>>
           /\ m_weights = call.preW
           /\ m_biases = call.preB
           /\ m_activations = call.preActs
           /\ m_preActivations = call.prePre

\* C9 witness: such a train call asking for epochs on a network that a
\* previous forward pass ran on
C9_Witness ==
    /\ call.op = "train"
    /\ Len(call.inputs) # Len(call.targets)
    /\ call.epochs > 0
    /\ Len(call.preActs) > 0
    /\ call.err

RECURSIVE EpochLoss(_, _, _)
\* sum of the losses of the first n backward calls of trace tr that belong
\* to (0-based) epoch e
EpochLoss(tr, e, n) ==
    IF n = 0 THEN 0
    ELSE EpochLoss(tr, e, n - 1) + (IF tr[n].epoch = e THEN tr[n].loss ELSE 0)

\* C10: train with inputs.size() = targets.size() (the empty dataset
\* included) returns, for every epochs >= 0, a history of exactly epochs
\* entries, entry e being the total loss of epoch e over the number of
\* examples.
\* (Violated: on a network no forward pass has run on, examples whose input
\* has the wrong size make backward read out of range; the call may end the
\* process instead of returning.)
C10_TrainReturnsHistory ==
    (call.op = "train" /\ Len(call.inputs) = Len(call.targets))
        => /\ call.returned
           /\ ~call.err
           /\ Len(call.history) = call.epochs
           /\ \A e \in 1..call.epochs :
                call.history[e]
                   = FDiv(EpochLoss(call.trace, e - 1, Len(call.trace)),
                          Len(call.inputs))

\* the weights and biases backward call number c (1-based) of a train call
\* may leave, recomputed from what the trace says that call started from
LeftBy(c) ==
    LET t == call.trace[c]
    IN  {[W |-> b.W, B |-> b.B] :
           b \in {Backward(m_layers, t.W, t.B, call.preLr, t.acts, t.pre, t.input,
                           t.target, hadamardFallback, gz, ga) :
                    gz \in GarbageVecs, ga \in GarbageVecs}}

\* call number c started from what the previous call left, the first call
\* from the network as it was before train
StartsWhereLastEnded(c) ==
    IF c = 1
    THEN call.trace[1].W = call.preW /\ call.trace[1].B = call.preB
    ELSE [W |-> call.trace[c].W, B |-> call.trace[c].B] \in LeftBy(c - 1)

\* C11: train with n examples and E epochs calls backward exactly E*n times,
\* call number e*n + i (0-based) being example i of epoch e with inputs[i]
\* and targets[i], and each call starts from the weights and biases the
\* previous call left (the first from those of the network before train).
\* (Violated: a backward call that reads out of range may end the process
\* before the E*n calls are made.)
C11_TrainCallOrder ==
    (call.op = "train" /\ Len(call.inputs) = Len(call.targets))
        => LET n == Len(call.inputs)
           IN  /\ Len(call.trace) = call.epochs * n
               /\ \A e \in 0..(call.epochs - 1) : \A i \in 0..(n - 1) :
                    LET t == call.trace[e * n + i + 1]
                    IN  /\ t.epoch = e
                        /\ t.i = i
                        /\ t.input = call.inputs[i + 1]
                        /\ t.target = call.targets[i + 1]
                        /\ StartsWhereLastEnded(e * n + i + 1)
               /\ Len(call.trace) > 0
                    => [W |-> m_weights, B |-> m_biases] \in LeftBy(Len(call.trace))

NextCell(layers, d) ==
    IF d.j + 1 < layers[d.layer + 1]
    THEN [layer |-> d.layer, i |-> d.i, j |-> d.j + 1]
    ELSE IF d.i + 1 < layers[d.layer + 2]
         THEN [layer |-> d.layer, i |-> d.i + 1, j |-> 0]
         ELSE [layer |-> d.layer + 1, i |-> 0, j |-> 0]

\* C13: initializeWeights seeds one generator once (seed 100) before any
\* draw and never again: the first draw is the first of the seeded stream,
\* every later draw is the next of the same stream, the draws fill the cells
\* in layer order and row-major within a layer (so the first draw of layer
\* k+1 follows the last of layer k), every weight is the sample of its own
\* draw, and two networks built from the same layer list get the same
\* weights.
C13_SingleGeneratorStream ==
    (la.op = "construct" /\ Len(la.layers) >= 2)
        => LET L == Len(la.layers)
               d == la.net.draws
           IN  /\ Len(d) > 0
               /\ d[1].g = GenStep(DefaultSeed % 16)
               /\ [layer |-> d[1].layer, i |-> d[1].i, j |-> d[1].j]
                     = [layer |-> 0, i |-> 0, j |-> 0]
               /\ \A n \in 1..(Len(d) - 1) :
                    /\ d[n + 1].g = GenStep(d[n].g)
                    /\ [layer |-> d[n + 1].layer, i |-> d[n + 1].i, j |-> d[n + 1].j]
                          = NextCell(la.layers, d[n])
               /\ NextCell(la.layers, d[Len(d)]) = [layer |-> L - 1, i |-> 0, j |-> 0]
               /\ \A n \in 1..Len(d) :
                    la.net.weights[d[n].layer + 1].data[d[n].i + 1][d[n].j + 1]
                       = Dist(d[n].g, Stddev(la.layers[d[n].layer + 1],
                                             la.layers[d[n].layer + 2]))
               /\ la.other.weights = la.net.weights
               /\ la.net.weights = InitialWeights(la.layers, DefaultSeed)

\* C13 witness: a network of two weight layers, the second of which gets
\* weights that a stream started again from the seed would not give
C13_Witness ==
    /\ la.op = "construct"
    /\ la.layers = <<2, 2, 2>>
    /\ Len(la.net.draws) = 8
    /\ la.net.draws[5].layer = 1
    /\ la.net.draws[5].g # la.net.draws[1].g
    /\ la.other.learningRate # la.net.learningRate

\* C14: elementwise add and subtract on vectors and on matrices.  When the
\* sizes (length, or rows and columns) differ the call reports the mismatch
\* and returns a value equal to the left operand, same size and same
\* elements; when they match the result has the operands' size and element
\* i is a_i + b_i (a_i - b_i); the operands are as before the call.
C14_ElementwiseAddSub ==
    /\ la.op \in {"vecAdd", "vecSub"}
          => /\ la.aAfter = la.a
             /\ la.bAfter = la.b
             /\ Len(la.res) = Len(la.a)
             /\ Len(la.a) # Len(la.b)
                   => (la.err /\ \A i \in 1..Len(la.a) : la.res[i] = la.a[i])
             /\ Len(la.a) = Len(la.b)
                   => /\ ~la.err
                      /\ \A i \in 1..Len(la.a) :
                           la.res[i] = IF la.op = "vecAdd" THEN la.a[i] + la.b[i]
                                       ELSE la.a[i] - la.b[i]
    /\ la.op \in {"matAdd", "matSub"}
          => /\ la.aAfter = la.a
             /\ la.bAfter = la.b
             /\ la.res.rows = la.a.rows
             /\ la.res.cols = la.a.cols
             /\ (la.a.rows # la.b.rows \/ la.a.cols # la.b.cols)
                   => /\ la.err
                      /\ \A i \in 1..la.a.rows : \A j \in 1..la.a.cols :
                           la.res.data[i][j] = la.a.data[i][j]
             /\ (la.a.rows = la.b.rows /\ la.a.cols = la.b.cols)
                   => /\ ~la.err
                      /\ \A i \in 1..la.a.rows : \A j \in 1..la.a.cols :
                           la.res.data[i][j]
                              = IF la.op = "matAdd"
                                THEN la.a.data[i][j] + la.b.data[i][j]
                                ELSE la.a.data[i][j] - la.b.data[i][j]

\* C14 witness: an addition of a vector of size 2 that is not zero and a
\* vector of size 3, which gives back the left operand
C14_Witness ==
    /\ la.op = "vecAdd"
    /\ Len(la.a) = 2
    /\ Len(la.b) = 3
    /\ la.a[1] # 0
    /\ la.b[1] # 0
    /\ la.err
    /\ la.res = la.a

C16_Dot ==
    la.op = "dot"
        => /\ la.aAfter = la.a
           /\ la.bAfter = la.b
           /\ Len(la.a) # Len(la.b) => (la.err /\ la.res = 0)
           /\ Len(la.a) = Len(la.b)
                 => /\ ~la.err
                    /\ la.res = SumTo([i \in 1..Len(la.a) |-> Mul(la.a[i], la.b[i])],
                                      Len(la.a))
           /\ (Len(la.a) = 0 /\ Len(la.b) = 0) => la.res = 0

\* C16 witness: vectors of sizes 1 and 2 whose first elements have a product
\* that is not zero
C16_Witness ==
    /\ la.op = "dot"
    /\ Len(la.a) = 1
    /\ Len(la.b) = 2
    /\ Mul(la.a[1], la.b[1]) # 0
    /\ la.res = 0

\* C17: for vectors a and b of equal size with integer elements, (a + b) - b
\* equals a under operator==, element for element.
C17_AddThenSubtract ==
    (la.op = "addSub" /\ Len(la.a) = Len(la.b)
       /\ IntegralVec(la.a) /\ IntegralVec(la.b))
        => /\ la.eq
           /\ Len(la.res) = Len(la.a)
           /\ \A i \in 1..Len(la.a) : la.res[i] = la.a[i]

\* C17 witness: two vectors of size 2 with integer elements, neither zero
C17_Witness ==
    /\ la.op = "addSub"
    /\ Len(la.a) = 2
    /\ Len(la.b) = 2
    /\ IntegralVec(la.a)
    /\ IntegralVec(la.b)
    /\ la.a[1] # 0
    /\ la.b[1] # 0
    /\ la.b[2] # la.b[1]
    /\ la.eq

\* C18: for matrices A (m x k), B (k x n), C (n x p) with integer entries,
\* (A*B)*C and A*(B*C) both have shape (m, p) and are equal under
\* operator==.
C18_MatMulAssociative ==
    (la.op = "assoc" /\ la.a.cols = la.b.rows /\ la.b.cols = la.c.rows
       /\ IntegralMat(la.a) /\ IntegralMat(la.b) /\ IntegralMat(la.c))
        => /\ la.left.rows = la.a.rows
           /\ la.left.cols = la.c.cols
           /\ la.right.rows = la.a.rows
           /\ la.right.cols = la.c.cols
           /\ la.eq
           /\ \A i \in 1..la.a.rows : \A j \in 1..la.c.cols :
                la.left.data[i][j] = la.right.data[i][j]

\* C18 witness: three 2x2 matrices that do not commute, with a product that
\* is not zero
C18_Witness ==
    /\ la.op = "assoc"
    /\ la.a.rows = 2 /\ la.a.cols = 2
    /\ la.b.rows = 2 /\ la.b.cols = 2
    /\ la.c.rows = 2 /\ la.c.cols = 2
    /\ MatMul(la.b, la.c) # MatMul(la.c, la.b)
    /\ la.left.data[1][2] # 0
    /\ la.eq

\* C19: transpose() of a matrix A of shape (r, c) returns a matrix of shape
\* (c, r) whose entry (j, i) is A(i, j) and leaves A as it was; applied
\* twice it gives a matrix equal to A, for every A, the empty and the
\* non-square ones included.
C19_Transpose ==
    la.op = "transpose"
        => /\ la.mAfter = la.m
           /\ la.res.rows = la.m.cols
           /\ la.res.cols = la.m.rows
           /\ \A i \in 1..la.m.rows : \A j \in 1..la.m.cols :
                la.res.data[j][i] = la.m.data[i][j]
           /\ la.eq
           /\ la.twice.rows = la.m.rows
           /\ la.twice.cols = la.m.cols
           /\ \A i \in 1..la.m.rows : \A j \in 1..la.m.cols :
                la.twice.data[i][j] = la.m.data[i][j]

\* C19 witness: a matrix of one row and two columns with different entries
C19_Witness ==
    /\ la.op = "transpose"
    /\ la.m.rows = 1
    /\ la.m.cols = 2
    /\ la.m.data[1][1] # la.m.data[1][2]
    /\ la.res.rows = 2
    /\ la.eq

\* C20: isZero() on a vector or matrix is true exactly when every element
\* is zero: true on a freshly constructed one of any size (size 0 included),
\* false after every write that leaves an element that is not zero, true
\* again when every element has been written back to zero.
C20_IsZero ==
    /\ la.op = "vecWrites"
          => /\ Len(la.hist) = Len(la.ws) + 1
             /\ Len(la.hist[1].v) = la.size
             /\ la.hist[1].isZero
             /\ \A k \in 1..Len(la.hist) :
                  la.hist[k].isZero
                     = (\A i \in 1..la.size : la.hist[k].v[i] = 0)
    /\ la.op = "matWrites"
          => /\ Len(la.hist) = Len(la.ws) + 1
             /\ la.hist[1].m.rows = la.rows
             /\ la.hist[1].m.cols = la.cols
             /\ la.hist[1].isZero
             /\ \A k \in 1..Len(la.hist) :
                  la.hist[k].isZero
                     = (\A i \in 1..la.rows : \A j \in 1..la.cols :
                          la.hist[k].m.data[i][j] = 0)

\* C20 witness: a vector of size 2 whose second element is written to a
\* value that is not zero, then its first, then the second back to zero and
\* (not yet) the first
C20_Witness ==
    /\ la.op = "vecWrites"
    /\ la.size = 2
    /\ Len(la.ws) = 3
    /\ la.hist[2].v[1] = 0
    /\ la.hist[2].v[2] # 0
    /\ ~la.hist[2].isZero
    /\ ~la.hist[3].isZero
    /\ la.hist[4].v[2] = 0
    /\ la.hist[4].isZero

(***************************************************************************)
(* C21.  A rejected write leaves the container as it was: Vector::setCoeff *)
(* with index >= size, Matrix2D::setCoeff with row >= rows or col >= cols, *)
(* and setRow / setCol with an index out of range or a vector whose length *)
(* differs from the target dimension return false and change no element    *)
(* and no dimension.  An accepted write returns true and changes only the  *)
(* addressed element, row or column, which takes the given value(s).       *)
(***************************************************************************)
SameDims(m, n) ==
    /\ n.rows = m.rows /\ n.cols = m.cols
    /\ Len(n.data) = m.rows
    /\ \A i \in 1..m.rows : Len(n.data[i]) = m.cols

C21_RejectedWritesChangeNothing ==
    /\ la.op = "vecSetCoeff" =>
         /\ la.res.ok = (la.i < Len(la.v))
         /\ Len(la.res.v) = Len(la.v)
         /\ \A k \in 1..Len(la.v) :
              la.res.v[k] = IF la.res.ok /\ k = la.i + 1 THEN la.value
                            ELSE la.v[k]
    /\ la.op = "matSetCoeff" =>
         /\ la.res.ok = (la.i < la.m.rows /\ la.j < la.m.cols)
         /\ SameDims(la.m, la.res.m)
         /\ \A i \in 1..la.m.rows, j \in 1..la.m.cols :
              la.res.m.data[i][j] =
                IF la.res.ok /\ i = la.i + 1 /\ j = la.j + 1 THEN la.value
                ELSE la.m.data[i][j]
    /\ la.op = "matSetRow" =>
         /\ la.res.ok = (la.i < la.m.rows /\ Len(la.vec) = la.m.cols)
         /\ SameDims(la.m, la.res.m)
         /\ \A i \in 1..la.m.rows, j \in 1..la.m.cols :
              la.res.m.data[i][j] =
                IF la.res.ok /\ i = la.i + 1 THEN la.vec[j]
                ELSE la.m.data[i][j]
    /\ la.op = "matSetCol" =>
         /\ la.res.ok = (la.j < la.m.cols /\ Len(la.vec) = la.m.rows)
         /\ SameDims(la.m, la.res.m)
         /\ \A i \in 1..la.m.rows, j \in 1..la.m.cols :
              la.res.m.data[i][j] =
                IF la.res.ok /\ j = la.j + 1 THEN la.vec[i]
                ELSE la.m.data[i][j]

\* setRow on a 2x2 matrix is rejected for a vector of 1 element at a valid
\* index, although the vector differs from the addressed row
C21_Witness ==
    /\ la.op = "matSetRow"
    /\ la.m.rows = 2 /\ la.m.cols = 2
    /\ la.i = 1 /\ Len(la.vec) = 1
    /\ la.vec[1] # la.m.data[2][1]
    /\ ~la.res.ok

(***************************************************************************)
(* C22.  getRow(i) with i >= rows reports an error and returns a zero      *)
(* vector of length cols; getCol(j) with j >= cols reports an error and    *)
(* returns a zero vector of length rows.  In range they return the row or  *)
(* column element for element without an error.  The matrix is unchanged.  *)
(***************************************************************************)
C22_GetRowGetCol ==
    /\ la.op = "matGetRow" =>
         /\ la.res.err = (la.i >= la.m.rows)
         /\ Len(la.res.ret) = la.m.cols
         /\ \A j \in 1..la.m.cols :
              la.res.ret[j] = IF la.i >= la.m.rows THEN 0
                              ELSE la.m.data[la.i + 1][j]
         /\ la.res.m = la.m
    /\ la.op = "matGetCol" =>
         /\ la.res.err = (la.j >= la.m.cols)
         /\ Len(la.res.ret) = la.m.rows
         /\ \A i \in 1..la.m.rows :
              la.res.ret[i] = IF la.j >= la.m.cols THEN 0
                              ELSE la.m.data[i][la.j + 1]
         /\ la.res.m = la.m

\* getRow past the last row of a non-zero 1x2 matrix
C22_Witness ==
    /\ la.op = "matGetRow"
    /\ la.m.rows = 1 /\ la.m.cols = 2
    /\ la.i = 1
    /\ ~MatIsZero(la.m)
    /\ la.res.err

(***************************************************************************)
(* C23.  predict is forward propagation: from the same network state,      *)
(* predict(input) returns exactly the vector forward(input) returns, the   *)
(* zero vector of the output size on an input of the wrong size included,  *)
(* and neither predict nor forward changes the weights, the biases, the    *)
(* layer list or the learning rate.                                        *)
(***************************************************************************)
C23_PredictIsForward ==
    [][/\ call'.op = "predict" =>
            call'.ret = Forward(m_layers, m_weights, m_biases, m_activations,
                                m_preActivations, call'.input).ret
       /\ call'.op \in {"predict", "forward"} =>
            /\ m_weights' = m_weights
            /\ m_biases' = m_biases
            /\ m_layers' = m_layers
            /\ m_learningRate' = m_learningRate]_vars

\* predict on an input of the wrong size has returned the zero-vector fallback
C23_Witness ==
    /\ call.op = "predict"
    /\ Len(call.input) # m_layers[1]
    /\ call.err
    /\ call.ret = ZeroVector(LastLayerSize)

(***************************************************************************)
(* C24.  predict stores no intermediate values: a predict call leaves the  *)
(* stored per-layer activations and pre-activations exactly as they were   *)
(* before the call.                                                        *)
(* (Violated: predict is forward, which clears both lists and stores the   *)
(* values of its own pass.)                                                *)
(***************************************************************************)
C24_PredictKeepsTransientState ==
    call.op = "predict" =>
        /\ m_activations = call.preActs
        /\ m_preActivations = call.prePre

(***************************************************************************)
(* C25.  Delta indexing in backward.  The delta of hidden layer k is       *)
(* computed from transpose(W_{k+1}) applied to the delta of layer k+1 and  *)
(* of no other layer, combined element-wise with sigma'(z_k).  After the   *)
(* reversal the delta used to update W_k and b_k is delta_k, and the       *)
(* weight gradient of layer k is the outer product of delta_k with         *)
(* m_activations[k].  (Layer k of the code is index k + 1 here; r is what  *)
(* a backward call that started with weights preW and biases preB left.)   *)
(***************************************************************************)
DeltaIndexing(preW, preB, lr, target, hf, r) ==
    LET n == Len(preW)
        d == r.deltas
    IN  /\ Len(d) = n
        /\ d[n] = Hadamard(MeanSquaredErrorDerivative(r.output, target),
                           SigmoidDerivativeVec(r.pre[n]), hf)
        /\ \A k \in 1..(n - 1) :
             d[k] = Hadamard(MatVec(Transpose(preW[k + 1]), d[k + 1]),
                             SigmoidDerivativeVec(r.pre[k]), hf)
        /\ \A k \in 1..n :
             /\ r.W[k] = MatSub(preW[k],
                                MatScale(OuterProduct(d[k], r.acts[k]), lr))
             /\ r.B[k] = VecSub(preB[k], VecScale(d[k], lr))

C25_DeltaIndexing ==
    la.op = "backward" =>
        DeltaIndexing(la.preW, la.preB, la.preLr, la.target, la.hf, la.res)

\* a backward call on a network with two hidden layers in which the three
\* deltas are not zero, the delta of the first hidden layer differs from
\* what the output delta would have given, and every bias has changed
C25_Witness ==
    /\ la.op = "backward"
    /\ Len(la.preW) = 3
    /\ \A k \in 1..3 : ~VecIsZero(la.res.deltas[k]) /\ la.res.B[k] # la.preB[k]
    /\ la.res.W[3] # la.preW[3]
    /\ la.res.deltas[1] #
         Hadamard(MatVec(Transpose(la.preW[2]), la.res.deltas[3]),
                  SigmoidDerivativeVec(la.res.pre[1]), la.hf)

(***************************************************************************)
(* C26.  With verbose true, train emits a progress line for epoch e        *)
(* (0-based) if and only if e mod 100 = 0 or e = epochs - 1, exactly one   *)
(* line for such an epoch even when both hold, and in increasing epoch     *)
(* order.  With verbose false, or with epochs = 0, it emits none.          *)
(* (Stated for the calls that pass the test of the example counts.         *)
(* Violated: when the first backward call reads out of range the process   *)
(* may end before the line of epoch 0 is written.)                         *)
(***************************************************************************)
LinesFor(log, e) == Cardinality({i \in 1..Len(log) : log[i] = e})

C26_ProgressLines ==
    (call.op = "train" /\ Len(call.inputs) = Len(call.targets)) =>
        /\ \A i \in 1..Len(call.log) : call.log[i] \in 0..(call.epochs - 1)
        /\ \A e \in 0..(call.epochs - 1) :
             LinesFor(call.log, e) =
               IF call.verbose /\ (e % 100 = 0 \/ e = call.epochs - 1) THEN 1
               ELSE 0
        /\ \A i \in 1..(Len(call.log) - 1) : call.log[i] < call.log[i + 1]
        /\ (~call.verbose \/ call.epochs = 0) => call.log = <<>>

(***************************************************************************)
(* C27.  backward with an input whose size is not layers[0] modifies no    *)
(* weight and no bias, whatever calls preceded it.                         *)
(* (Violated: the internal forward returns early, and backward goes on to  *)
(* update the network from the activations an earlier pass has stored.)    *)
(***************************************************************************)
C27_WrongSizeBackwardChangesNothing ==
    (call.op = "backward" /\ Len(call.input) # m_layers[1]) =>
        /\ m_weights = call.preW
        /\ m_biases = call.preB

(***************************************************************************)
(* C28.  Every index backward uses into m_preActivations and               *)
(* m_activations is smaller than the list's current length, in every call  *)
(* sequence, backward as the very first call with an input of the wrong    *)
(* size included.  (backward reads m_preActivations[layer] and             *)
(* m_activations[layer] for layer = 0 .. m_weights.size() - 1, after its   *)
(* internal forward; the lists it read are the ones the call leaves.)      *)
(* (Violated: after the early return of forward on a fresh network both    *)
(* lists are empty.)                                                       *)
(***************************************************************************)
C28_BackwardIndicesInRange ==
    call.op = "backward" =>
        \A layer \in 0..(Len(call.preW) - 1) :
            /\ layer < Len(m_preActivations)
            /\ layer < Len(m_activations)

(***************************************************************************)
(* C29.  Within one backward call every delta is computed before any       *)
(* weight or bias is changed: the W_{k+1} used for delta_k is the value at *)
(* the time of the call, not an updated one; and each layer's weights and  *)
(* bias are assigned exactly once per call, in increasing layer order.     *)
(* (Violated: a call whose first read of m_preActivations is out of range  *)
(* may end the process before the update loop, with no layer assigned.)    *)
(***************************************************************************)
AssignmentsInLayerOrder(n) ==
    [i \in 1..(2 * n) |->
       [var   |-> IF i % 2 = 1 THEN "m_weights" ELSE "m_biases",
        layer |-> (i - 1) \div 2]]

C29_DeltasBeforeUpdates ==
    call.op = "backward" =>
        /\ \E gz \in GarbageVecs :
             call.deltas = Deltas(call.preW, m_preActivations, call.output,
                                  call.target, hadamardFallback, gz)
        /\ call.writes = AssignmentsInLayerOrder(Len(call.preW))

(***************************************************************************)
(* C30.  backward with an input of the right size but a target whose size  *)
(* is not layers.back() returns loss 0 and leaves every weight and bias    *)
(* unchanged: each mismatched step falls back to zero or to its unchanged  *)
(* left operand.                                                           *)
(***************************************************************************)
C30_WrongSizeTargetChangesNothing ==
    (/\ call.op = "backward"
     /\ Len(call.input) = m_layers[1]
     /\ Len(call.target) # LastLayerSize) =>
        /\ call.returned
        /\ call.loss = 0
        /\ m_weights = call.preW
        /\ m_biases = call.preB

\* such a call on a network whose biases an earlier backward call has made
\* non-zero, with an output that differs from the target where both have an
\* element
C30_Witness ==
    /\ call.op = "backward"
    /\ call.returned
    /\ Len(call.input) = m_layers[1]
    /\ Len(call.target) # LastLayerSize
    /\ \E k \in 1..Len(call.preB) : ~VecIsZero(call.preB[k])
    /\ call.output[1] # call.target[1]
    /\ call.loss = 0

====
